---- MODULE Spec2Model ----
(***************************************************************************)
(* Email-to-ticket synchronisation engine of peppermint's Exchange         *)
(* integration: EmailProcessingService (ingestion) and                     *)
(* MicrosoftGraphService (token manager, mailbox client).                  *)
(*                                                                         *)
(* Times are milliseconds, as in the code (Date.getTime()).                *)
(* Every `await` of the code is a step boundary of the run that executes   *)
(* it; the Prisma store operations are atomic per call.                    *)
(***************************************************************************)
EXTENDS Integers, Sequences, FiniteSets, TLC

(***************************************************************************)
(* Bounds of the model                                                     *)
(***************************************************************************)
MaxRuns == 2
MaxFaults == 1
MaxLimit == 2
MaxTicks == 3
MaxCalls == 3
MaxSessions == 2

(***************************************************************************)
(* Program constants                                                       *)
(***************************************************************************)
\* MicrosoftGraphService.getAccessToken: 5 * 60 * 1000
ExpiryBuffer == 300000

Conns == {"A", "B"}
NoConn == "none"
Runs == {1, 2}
\* concurrent invocations of handleCallback
Callers == {1, 2}
\* const sessionExpiry = new Date(Date.now() + 10 * 60 * 1000)
SessionLifetime == 600000

\* GraphEmailMessage: id, conversationId, receivedDateTime
MsgIds == {"m1", "m2", "m3"}
ConvOf(m) == IF m = "m3" THEN "Y" ELSE "X"
ReceivedAt(m) == CASE m = "m1" -> 1 [] m = "m2" -> 2 [] OTHER -> 3

\* expires_in values (seconds) a token endpoint may grant
ExpiresIn == {60, 360}

NoLog == [status |-> "NONE"]
NoTicket == 0
NoErr == "null"
Undefined == "undefined"
UndefinedId == -1

Min(a, b) == IF a < b THEN a ELSE b

VARIABLES
  connState,    \* ExchangeConnection rows: "active", "inactive" or "missing"
  secretSet,    \* process.env.MICROSOFT_CLIENT_SECRET is configured
  uniqueTokenIndex, \* the database has ExchangeToken_connectionId_key
  tokens,       \* ExchangeToken rows per connection, in createdAt order
  issued,       \* number of access tokens the provider has issued
  now,          \* Date.now()
  logs,         \* EmailProcessingLog rows, keyed by messageId
  mappings,     \* TicketEmailMapping rows
  tickets,      \* Ticket rows created by ingestion; the id is the index
  comments,     \* Comment rows, in creation order
  run,          \* the processEmails invocations
  ghost,        \* history of each invocation
  started,      \* number of processEmails invocations so far
  faults,       \* number of store failures injected so far
  logFault,     \* some emailProcessingLog.upsert has failed
  tk,           \* the getAccessToken or refreshAccessToken invocation
  mb,           \* the mailbox client call that invoked getAccessToken
  sessions,     \* ExchangeOAuthSession rows
  minted,       \* number of state tokens generated so far
  cb,           \* the handleCallback invocations
  rv,           \* the revokeTokens invocation
  sweep,        \* the last cleanupExpiredSessions call
  consumed,     \* the states for which a handleCallback has succeeded
  calls,        \* number of service operations invoked so far
  ticks,        \* number of clock steps so far
  emailProviderEnv, \* process.env.EMAIL_PROVIDER
  es,           \* the EmailService instance: provider and config
  st,           \* the EmailService operation in progress
  outbound,     \* the outbound log entries, in the order they were emitted
  retry,        \* the withRetry invocation
  classified,   \* the last isRetryableError call: its argument and result
  delayCall,    \* the last getRetryDelay call: its arguments and result
  rateLimitStore, \* ExchangeSecurity.rateLimitStore: the entry of each key
  limitConfig,  \* the RateLimitConfig the callers pass for each key
  limitCall,    \* the last checkRateLimit call
  windowHistory, \* per key: the window of its last allowed call
  hc,           \* the performHealthCheck invocation and its report
  crypt         \* the last encryptToken call and the decryptToken after it

vars == <<connState, secretSet, uniqueTokenIndex, tokens, issued, now, logs, mappings, tickets,
          comments, run, ghost, started, faults, logFault, tk, mb, sessions, minted, cb, rv, sweep,
          consumed, calls, ticks, emailProviderEnv, es, st, outbound, retry,
          classified, delayCall, rateLimitStore, limitConfig, limitCall,
          windowHistory, hc, crypt>>

\* the stores, the clock and the invocations of the ingestion, token and
\* authorization services
coreVars == <<connState, secretSet, uniqueTokenIndex, tokens, issued, now, logs,
              mappings, tickets, comments, run, ghost, started, faults, logFault,
              tk, mb, sessions, minted, cb, rv, sweep, consumed, calls, ticks>>

\* the state of the outbound dispatcher
dispatchVars == <<emailProviderEnv, es, st, outbound>>

\* the state of the retry helpers
retryVars == <<retry, classified, delayCall>>

\* the state of the rate limiter
limiterVars == <<rateLimitStore, limitConfig, limitCall, windowHistory>>

\* the state of the health monitor
healthVars == <<hc>>

\* the state of the token cipher
cryptoVars == <<crypt>>

\* the state of the outbound dispatcher and of the library helpers
libraryVars == <<dispatchVars, retryVars, limiterVars, healthVars, cryptoVars>>

(***************************************************************************)
(* Outbound dispatcher: values of EmailService                             *)
(***************************************************************************)
\* this.provider: null, an ExchangeEmailProvider bound to a connection, or
\* the SMTPEmailProvider
NoProvider == [name |-> "null", connectionId |-> NoConn]
ExchangeProvider(c) == [name |-> "Exchange", connectionId |-> c]
SMTPProvider == [name |-> "SMTP", connectionId |-> NoConn]

NoContext == [ticketId |-> "none", ticketNumber |-> "none",
              isReply |-> Undefined, originalMessageId |-> Undefined,
              threadId |-> Undefined]
NoMessage == [inReplyTo |-> Undefined, references |-> Undefined,
              threadId |-> Undefined, headers |-> <<>>]
NoConfig == [provider |-> Undefined, connectionId |-> NoConn]
IdleSend == [pc |-> "idle", op |-> "none", config |-> NoConfig,
             context |-> NoContext, to |-> <<>>, message |-> NoMessage,
             next |-> 1, sent |-> <<>>, failed |-> <<>>, inits |-> 0,
             result |-> "none", success |-> FALSE, error |-> Undefined,
             logged |-> FALSE, attempted |-> <<>>, errors |-> <<>>,
             errorText |-> <<>>]

(***************************************************************************)
(* Retry helpers: values                                                   *)
(***************************************************************************)
\* no error: the operation resolved, or nothing was thrown yet
NoError == [kind |-> "none", httpStatus |-> 0, status |-> 0, message |-> <<>>]
IdleRetry == [pc |-> "idle", maxAttempts |-> 0, attempt |-> 0,
              invocations |-> 0, outcomes |-> <<>>, delays |-> <<>>,
              lastError |-> NoError, result |-> "none", thrown |-> NoError]
NoClassification == [error |-> NoError, retryable |-> FALSE]
NoDelayCall == [attempt |-> 0, baseDelay |-> 0, exponentialDelay |-> 0,
                jitter |-> 0, delay |-> 0]

\* a fresh EmailService of a process whose outbound log is empty
DispatchInit ==
  /\ es = [provider |-> NoProvider, config |-> "null"]
  /\ st = IdleSend
  /\ outbound = <<>>

\* no helper has been called yet
RetryInit ==
  /\ retry = IdleRetry
  /\ classified = NoClassification
  /\ delayCall = NoDelayCall

(***************************************************************************)
(* Rate limiter: values                                                    *)
(***************************************************************************)
\* the keys checkRateLimit is called with
Keys == {"k1", "k2"}
\* rateLimitStore.get(key) of a key without an entry
NoEntry == [present |-> FALSE, count |-> 0, resetTime |-> 0]
NoLimitCall == [key |-> "none", at |-> 0, allowed |-> FALSE,
                before |-> NoEntry, deniedBefore |-> 0]
NoWindow == [open |-> FALSE, start |-> 0, allowed |-> 0, denied |-> 0]

\* an empty rateLimitStore; every key is used with one request per minute
LimiterInit ==
  /\ rateLimitStore = [k \in Keys |-> NoEntry]
  /\ limitConfig = [k \in Keys |-> [windowMs |-> 60 * 1000, maxRequests |-> 1]]
  /\ limitCall = NoLimitCall
  /\ windowHistory = [k \in Keys |-> NoWindow]

(***************************************************************************)
(* Health monitor: values                                                  *)
(***************************************************************************)
\* the six probes of performHealthCheck, in the order of checkPromises
Probes == 1..6
\* a HealthCheck: its name and status (message, duration and metadata are
\* not part of the state)
NoCheck == [name |-> "none", status |-> "none"]
\* a promise of Promise.allSettled: pending, fulfilled with a HealthCheck
\* or rejected with a reason
Pending == [status |-> "pending", value |-> NoCheck, reason |-> "none"]
Fulfilled(check) == [status |-> "fulfilled", value |-> check, reason |-> "none"]
Rejected(reason) == [status |-> "rejected", value |-> NoCheck, reason |-> reason]
NoReport == [status |-> "none", checks |-> <<>>,
             summary |-> [total |-> 0, healthy |-> 0, degraded |-> 0,
                          unhealthy |-> 0]]
IdleHealth == [pc |-> "idle", results |-> [i \in Probes |-> Pending],
               report |-> NoReport, outcome |-> "none", logged |-> <<>>]

\* performHealthCheck has not been called yet
HealthInit == hc = IdleHealth

(***************************************************************************)
(* Token cipher: values                                                    *)
(***************************************************************************)
IdleCrypt == [op |-> "none", token |-> <<>>, encrypted |-> <<>>,
              input |-> <<>>, result |-> "none", decrypted |-> <<>>,
              error |-> Undefined]

\* neither encryptToken nor decryptToken has been called yet
CryptoInit == crypt = IdleCrypt

LibraryInit ==
  /\ DispatchInit
  /\ RetryInit
  /\ LimiterInit
  /\ HealthInit
  /\ CryptoInit

(***************************************************************************)
(* Token manager: MicrosoftGraphService.getAccessToken / refreshAccessToken *)
(***************************************************************************)
\* orderBy createdAt desc, take 1
LatestToken(toks) == toks[Len(toks)]

\* variant: the buffer boundary counted as still valid
IsTokenValid_Inclusive(tok, t) == tok.expiresAt - t >= ExpiryBuffer

\* expiresAt.getTime() - now.getTime() > expiryBuffer
IsTokenValid(tok, t) == tok.expiresAt - t > ExpiryBuffer

\* variant: the request is sent without a configured client secret
CanRefresh_IgnoresSecret(c, toks) ==
  /\ connState[c] # "missing"
  /\ Len(toks) > 0
  /\ LatestToken(toks).refreshToken # 0

\* the guard of refreshAccessToken before the request is sent
CanRefresh(c, toks) ==
  /\ connState[c] # "missing"
  /\ Len(toks) > 0
  /\ LatestToken(toks).refreshToken # 0
  /\ secretSet

\* the row stored by refreshAccessToken from the provider's response
NewToken(resp, cur, t, id) ==
  [accessToken |-> id,
   refreshToken |-> IF resp.newRefresh THEN id ELSE cur.refreshToken,
   expiresAt |-> t + resp.expires_in * 1000]

\* responses of the token endpoint: 2xx with a body, or a failure
TokenResponses ==
  [ok : {TRUE}, expires_in : ExpiresIn, newRefresh : BOOLEAN]
    \cup {[ok |-> FALSE, expires_in |-> 0, newRefresh |-> FALSE]}

\* exchangeToken.create for one connection: the code reads the rows of a
\* connection as a list (orderBy createdAt desc, take 1), the migration
\* declares connectionId unique; where the index exists the insert of a
\* second row is rejected
TokenCreate(toks, row) ==
  IF uniqueTokenIndex /\ Len(toks) > 0
  THEN [ok |-> FALSE, toks |-> toks]
  ELSE [ok |-> TRUE, toks |-> Append(toks, row)]

\* refreshAccessToken as one call: the rows afterwards and the result
RefreshAccessToken(c, toks, resp, t, id) ==
  IF CanRefresh(c, toks) /\ resp.ok
  THEN TokenCreate(toks, NewToken(resp, LatestToken(toks), t, id))
  ELSE [ok |-> FALSE, toks |-> toks]

\* getAccessToken as one call
GetAccessToken(c, toks, resp, t, id) ==
  IF connState[c] = "missing" \/ Len(toks) = 0
  THEN [ok |-> FALSE, toks |-> toks, token |-> 0, refreshed |-> FALSE]
  ELSE IF IsTokenValid(LatestToken(toks), t)
  THEN [ok |-> TRUE, toks |-> toks, token |-> LatestToken(toks).accessToken,
        refreshed |-> FALSE]
  ELSE LET rf == RefreshAccessToken(c, toks, resp, t, id)
       IN [ok |-> rf.ok, toks |-> rf.toks,
           token |-> IF rf.ok THEN LatestToken(rf.toks).accessToken ELSE 0,
           refreshed |-> TRUE]

(***************************************************************************)
(* Mailbox client: MicrosoftGraphService.getEmails                         *)
(***************************************************************************)
LatestOf(S) == CHOOSE m \in S : \A x \in S : ReceivedAt(x) <= ReceivedAt(m)

\* $orderby=receivedDateTime desc
RECURSIVE SortDesc(_)
SortDesc(S) == IF S = {} THEN <<>>
               ELSE LET m == LatestOf(S) IN <<m>> \o SortDesc(S \ {m})

\* variant: $top is ignored
Top_IgnoresLimit(seq, n) == seq

\* $top=limit
Top(seq, n) == SubSeq(seq, 1, Min(n, Len(seq)))

\* the messages returned for a mailbox holding S
GetEmails(S, limit) == Top(SortDesc(S), limit)

(***************************************************************************)
(* Ingestion engine: EmailProcessingService                                *)
(***************************************************************************)
IdleRun == [pc |-> "idle", conn |-> NoConn, limit |-> 0, batch |-> <<>>, idx |-> 0,
            processed |-> 0, errors |-> 0, ticketId |-> NoTicket, err |-> NoErr,
            outcome |-> "none"]
NoHistory == [skipped |-> {}, failed |-> {}, wrote |-> FALSE, contacted |-> FALSE]

CurMsg(r) == run[r].batch[run[r].idx]

\* the for-loop of processEmails: next message, or return {processed, errors}
Advance(rec) ==
  IF rec.idx >= Len(rec.batch)
  THEN [rec EXCEPT !.pc = "done", !.outcome = "returned"]
  ELSE [rec EXCEPT !.pc = "findLog", !.idx = @ + 1,
                   !.ticketId = NoTicket, !.err = NoErr]

\* processEmail returned without throwing: processed++
Processed(rec) == Advance([rec EXCEPT !.processed = @ + 1])

\* variant: a FAILED record does not count, the message is retried
ExistingLog_RetryFailed(lg, c, m) == IF lg[m].status = "FAILED" THEN NoLog ELSE lg[m]

\* emailProcessingLog.findUnique({ where: { messageId } })
ExistingLog(lg, c, m) == lg[m]

\* emailProcessingLog.upsert({ where: { messageId }, update, create });
\* an undefined value leaves the column alone on update and is null on create
LogUpsert(lg, c, m, status, ticketId, errorMessage) ==
  IF lg[m] = NoLog
  THEN [lg EXCEPT ![m] =
          [status |-> status, connectionId |-> c,
           ticketId |-> IF ticketId = UndefinedId THEN NoTicket ELSE ticketId,
           errorMessage |-> IF errorMessage = Undefined THEN NoErr ELSE errorMessage]]
  ELSE [lg EXCEPT ![m] =
          [status |-> status, connectionId |-> lg[m].connectionId,
           ticketId |-> IF ticketId = UndefinedId THEN lg[m].ticketId ELSE ticketId,
           errorMessage |-> IF errorMessage = Undefined THEN lg[m].errorMessage
                            ELSE errorMessage]]

\* variant: the lookup by conversation is left out
MatchingMappings_ByMessageOnly(maps, c, m) == {x \in maps : x.messageId = m}

\* ticketEmailMapping.findFirst({ where: { OR: [{messageId}, {threadId}] } })
MatchingMappings(maps, c, m) ==
  {x \in maps : x.messageId = m \/ x.threadId = ConvOf(m)}

\* the row of ticketEmailMapping.create({ data: { ticketId, messageId, threadId } })
MappingRow(c, m, ticketId) ==
  [ticketId |-> ticketId, messageId |-> m, threadId |-> ConvOf(m),
   connectionId |-> NoConn]

\* unique index TicketEmailMapping(ticketId, messageId)
MappingExists(maps, ticketId, m) ==
  \E x \in maps : x.ticketId = ticketId /\ x.messageId = m

\* variant: the isActive check is left out
ConnectionUsable_IgnoresActive(c) == connState[c] # "missing"

\* if (!connection || !connection.isActive) throw
ConnectionUsable(c) == connState[c] = "active"

NoOtherChange ==
  UNCHANGED <<libraryVars, connState, secretSet, uniqueTokenIndex, tk, mb, sessions, minted,
              cb, rv, sweep, consumed, calls, ticks, now>>

\* processEmails(connectionId, limit) is invoked; the invocation takes the
\* first free slot
StartProcessEmails(r, c, lim) ==
  /\ run[r].pc = "idle"
  /\ \A q \in Runs : q < r => run[q].pc # "idle"
  /\ started < MaxRuns
  /\ started' = started + 1
  /\ run' = [run EXCEPT ![r] = [IdleRun EXCEPT !.pc = "checkConn", !.conn = c,
                                               !.limit = lim]]
  /\ ghost' = [ghost EXCEPT ![r] = NoHistory]
  /\ UNCHANGED <<logs, mappings, tickets, comments, faults, logFault, tokens, issued>>
  /\ NoOtherChange

\* exchangeConnection.findUnique and the active check
CheckConnection(r) ==
  /\ run[r].pc = "checkConn"
  /\ run' = [run EXCEPT ![r] =
       IF ConnectionUsable(run[r].conn)
       THEN [@ EXCEPT !.pc = "fetch"]
       ELSE [@ EXCEPT !.pc = "done", !.outcome = "threw",
                      !.err = "Connection not found or inactive"]]
  /\ UNCHANGED <<ghost, started, logs, mappings, tickets, comments, faults, logFault,
                 tokens, issued>>
  /\ NoOtherChange

\* graphService.getEmails: access token, then the Graph request
FetchEmails(r) ==
  /\ run[r].pc = "fetch"
  /\ \E resp \in TokenResponses, graphOk \in BOOLEAN, S \in SUBSET MsgIds :
       LET c == run[r].conn
           ga == GetAccessToken(c, tokens[c], resp, now, issued + 1)
           emails == GetEmails(S, run[r].limit)
       IN /\ tokens' = [tokens EXCEPT ![c] = ga.toks]
          /\ issued' = IF Len(ga.toks) > Len(tokens[c]) THEN issued + 1 ELSE issued
          /\ ghost' = [ghost EXCEPT ![r].contacted =
                          ga.ok \/ (ga.refreshed /\ CanRefresh(c, tokens[c]))]
          /\ run' = [run EXCEPT ![r] =
               IF ~ga.ok
               THEN [@ EXCEPT !.pc = "done", !.outcome = "threw", !.limit = 0,
                              !.err = "token"]
               ELSE IF ~graphOk
               THEN [@ EXCEPT !.pc = "done", !.outcome = "threw", !.limit = 0,
                              !.err = "Graph API error"]
               ELSE IF emails = <<>>
               THEN [@ EXCEPT !.pc = "done", !.outcome = "returned", !.limit = 0]
               ELSE [@ EXCEPT !.pc = "findLog", !.batch = emails, !.idx = 1,
                              !.limit = 0]]
  /\ UNCHANGED <<started, logs, mappings, tickets, comments, faults, logFault>>
  /\ NoOtherChange

\* processEmail: the lookup of an existing log and the early return
FindExistingLog(r) ==
  /\ run[r].pc = "findLog"
  /\ LET m == CurMsg(r)
     IN IF ExistingLog(logs, run[r].conn, m) # NoLog
        THEN /\ run' = [run EXCEPT ![r] = Processed(@)]
             /\ ghost' = [ghost EXCEPT ![r].skipped = @ \cup {m}]
        ELSE /\ run' = [run EXCEPT ![r].pc = "logProcessing"]
             /\ UNCHANGED ghost
  /\ UNCHANGED <<started, logs, mappings, tickets, comments, faults, logFault,
                 tokens, issued>>
  /\ NoOtherChange

\* logEmailProcessing(..., 'PROCESSING'); a store failure is swallowed
LogProcessing(r) ==
  /\ run[r].pc = "logProcessing"
  /\ \E fail \in BOOLEAN :
       /\ fail => faults < MaxFaults
       /\ faults' = IF fail THEN faults + 1 ELSE faults
       /\ logFault' = (logFault \/ fail)
       /\ logs' = IF fail THEN logs
                  ELSE LogUpsert(logs, run[r].conn, CurMsg(r), "PROCESSING",
                                 UndefinedId, Undefined)
       /\ ghost' = [ghost EXCEPT ![r].wrote = @ \/ ~fail]
  /\ run' = [run EXCEPT ![r].pc = "findMapping"]
  /\ UNCHANGED <<started, mappings, tickets, comments, tokens, issued>>
  /\ NoOtherChange

\* ticketEmailMapping.findFirst: an existing conversation or a new ticket
FindMapping(r) ==
  /\ run[r].pc = "findMapping"
  /\ LET found == MatchingMappings(mappings, run[r].conn, CurMsg(r))
     IN IF found = {}
        THEN run' = [run EXCEPT ![r].pc = "createTicket"]
        ELSE \E x \in found :
               run' = [run EXCEPT ![r].pc = "addComment", ![r].ticketId = x.ticketId]
  /\ UNCHANGED <<ghost, started, logs, mappings, tickets, comments, faults, logFault,
                 tokens, issued>>
  /\ NoOtherChange

\* createTicketFromEmail: connection lookup, ticket.create
CreateTicketFromEmail(r) ==
  /\ run[r].pc = "createTicket"
  /\ \E fail \in BOOLEAN :
       /\ fail => faults < MaxFaults
       /\ faults' = IF fail THEN faults + 1 ELSE faults
       /\ IF connState[run[r].conn] = "missing"
          THEN /\ run' = [run EXCEPT ![r].pc = "logFailed",
                                     ![r].err = "Connection not found"]
               /\ ghost' = [ghost EXCEPT ![r].failed = @ \cup
                              {[msg |-> CurMsg(r), err |-> "Connection not found"]}]
               /\ UNCHANGED tickets
          ELSE IF fail
          THEN /\ run' = [run EXCEPT ![r].pc = "logFailed",
                                     ![r].err = "ticket.create failed"]
               /\ ghost' = [ghost EXCEPT ![r].failed = @ \cup
                              {[msg |-> CurMsg(r), err |-> "ticket.create failed"]}]
               /\ UNCHANGED tickets
          ELSE /\ tickets' = Append(tickets, [messageId |-> CurMsg(r),
                                              connectionId |-> run[r].conn])
               /\ run' = [run EXCEPT ![r].pc = "link",
                                     ![r].ticketId = Len(tickets) + 1]
               /\ ghost' = [ghost EXCEPT ![r].wrote = TRUE]
  /\ UNCHANGED <<started, logs, mappings, comments, logFault, tokens, issued>>
  /\ NoOtherChange

\* addCommentToTicket: ticket lookup, comment.create
AddCommentToTicket(r) ==
  /\ run[r].pc = "addComment"
  /\ \E fail \in BOOLEAN :
       /\ fail => faults < MaxFaults
       /\ faults' = IF fail THEN faults + 1 ELSE faults
       /\ IF run[r].ticketId > Len(tickets)
          THEN /\ run' = [run EXCEPT ![r].pc = "logFailed",
                                     ![r].err = "Ticket not found"]
               /\ ghost' = [ghost EXCEPT ![r].failed = @ \cup
                              {[msg |-> CurMsg(r), err |-> "Ticket not found"]}]
               /\ UNCHANGED comments
          ELSE IF fail
          THEN /\ run' = [run EXCEPT ![r].pc = "logFailed",
                                     ![r].err = "comment.create failed"]
               /\ ghost' = [ghost EXCEPT ![r].failed = @ \cup
                              {[msg |-> CurMsg(r), err |-> "comment.create failed"]}]
               /\ UNCHANGED comments
          ELSE /\ comments' = Append(comments, [ticketId |-> run[r].ticketId,
                                                messageId |-> CurMsg(r),
                                                connectionId |-> run[r].conn])
               /\ run' = [run EXCEPT ![r].pc = "link"]
               /\ ghost' = [ghost EXCEPT ![r].wrote = TRUE]
  /\ UNCHANGED <<started, logs, mappings, tickets, logFault, tokens, issued>>
  /\ NoOtherChange

\* linkEmailToTicket: a unique-constraint violation is swallowed, any other
\* store failure is rethrown
LinkEmailToTicket(r) ==
  /\ run[r].pc = "link"
  /\ \E fail \in BOOLEAN :
       /\ fail => faults < MaxFaults
       /\ faults' = IF fail THEN faults + 1 ELSE faults
       /\ IF fail
          THEN /\ run' = [run EXCEPT ![r].pc = "logFailed",
                                     ![r].err = "ticketEmailMapping.create failed"]
               /\ ghost' = [ghost EXCEPT ![r].failed = @ \cup
                              {[msg |-> CurMsg(r), err |-> "ticketEmailMapping.create failed"]}]
               /\ UNCHANGED mappings
          ELSE /\ mappings' =
                    IF MappingExists(mappings, run[r].ticketId, CurMsg(r))
                    THEN mappings
                    ELSE mappings \cup
                           {MappingRow(run[r].conn, CurMsg(r), run[r].ticketId)}
               /\ run' = [run EXCEPT ![r].pc = "logSuccess"]
               /\ ghost' = [ghost EXCEPT ![r].wrote = TRUE]
  /\ UNCHANGED <<started, logs, tickets, comments, logFault, tokens, issued>>
  /\ NoOtherChange

\* logEmailProcessing(..., 'SUCCESS', ticketId), then processed++
LogSuccess(r) ==
  /\ run[r].pc = "logSuccess"
  /\ \E fail \in BOOLEAN :
       /\ fail => faults < MaxFaults
       /\ faults' = IF fail THEN faults + 1 ELSE faults
       /\ logFault' = (logFault \/ fail)
       /\ logs' = IF fail THEN logs
                  ELSE LogUpsert(logs, run[r].conn, CurMsg(r), "SUCCESS",
                                 run[r].ticketId, Undefined)
  /\ run' = [run EXCEPT ![r] = Processed(@)]
  /\ UNCHANGED <<ghost, started, mappings, tickets, comments, tokens, issued>>
  /\ NoOtherChange

\* variant: the first failing message ends the batch
LogFailed_AbortsBatch(r) ==
  /\ run[r].pc = "logFailed"
  /\ \E fail \in BOOLEAN :
       /\ fail => faults < MaxFaults
       /\ faults' = IF fail THEN faults + 1 ELSE faults
       /\ logFault' = (logFault \/ fail)
       /\ logs' = IF fail THEN logs
                  ELSE LogUpsert(logs, run[r].conn, CurMsg(r), "FAILED",
                                 NoTicket, run[r].err)
  /\ run' = [run EXCEPT ![r].errors = @ + 1, ![r].pc = "done",
                        ![r].outcome = "returned"]
  /\ UNCHANGED <<ghost, started, mappings, tickets, comments, tokens, issued>>
  /\ NoOtherChange

\* the catch of processEmails: errors++, logEmailProcessing(..., 'FAILED', null, message)
LogFailed(r) ==
  /\ run[r].pc = "logFailed"
  /\ \E fail \in BOOLEAN :
       /\ fail => faults < MaxFaults
       /\ faults' = IF fail THEN faults + 1 ELSE faults
       /\ logFault' = (logFault \/ fail)
       /\ logs' = IF fail THEN logs
                  ELSE LogUpsert(logs, run[r].conn, CurMsg(r), "FAILED",
                                 NoTicket, run[r].err)
  /\ run' = [run EXCEPT ![r] = Advance([@ EXCEPT !.errors = @ + 1])]
  /\ UNCHANGED <<ghost, started, mappings, tickets, comments, tokens, issued>>
  /\ NoOtherChange

\* the caller has taken the result; the slot is free for the next invocation
Finish(r) ==
  /\ run[r].pc = "done"
  /\ run' = [run EXCEPT ![r] = IdleRun]
  /\ ghost' = [ghost EXCEPT ![r] = NoHistory]
  /\ UNCHANGED <<started, logs, mappings, tickets, comments, faults, logFault,
                 tokens, issued>>
  /\ NoOtherChange

\* the steps of an invocation after its start
RunBody(r) ==
  \/ CheckConnection(r)
  \/ FetchEmails(r)
  \/ FindExistingLog(r)
  \/ LogProcessing(r)
  \/ FindMapping(r)
  \/ CreateTicketFromEmail(r)
  \/ AddCommentToTicket(r)
  \/ LinkEmailToTicket(r)
  \/ LogSuccess(r)
  \/ LogFailed(r)
  \/ Finish(r)

(***************************************************************************)
(* One invocation of getAccessToken, step by step                          *)
(***************************************************************************)
NoToken == [accessToken |-> -1, refreshToken |-> 0, expiresAt |-> 0]
IdleCall == [pc |-> "idle", conn |-> NoConn, cur |-> NoToken, expiresAt |-> 0,
             newRefresh |-> FALSE, result |-> "none", token |-> NoToken,
             at |-> 0, seen |-> NoToken, seenAt |-> 0, refreshCalls |-> 0,
             requests |-> 0, direct |-> FALSE, refreshed |-> "none",
             before |-> <<>>, response |-> "none"]
IdleMailbox == [pc |-> "idle", method |-> "none", result |-> "none",
                apiRequests |-> 0]

IngestUnchanged ==
  UNCHANGED <<libraryVars, logs, mappings, tickets, comments, run, ghost, started, faults,
              logFault, connState, secretSet, uniqueTokenIndex, sessions,
              minted, cb, rv, sweep, consumed>>

\* what the caller of refreshAccessToken gets when it returns false: the
\* boolean itself, or the error getAccessToken throws on it
RefreshFailed(call) ==
  [call EXCEPT !.pc = "done", !.refreshed = "false",
               !.result = IF call.direct THEN "false" ELSE "threw"]

\* getAccessToken(connectionId) is invoked
GetAccessTokenStart(c) ==
  /\ tk.pc = "idle"
  /\ mb.pc = "idle"
  /\ calls < MaxCalls
  /\ calls' = calls + 1
  /\ tk' = [IdleCall EXCEPT !.pc = "lookup", !.conn = c]
  /\ UNCHANGED <<tokens, issued, now, ticks, mb>>
  /\ IngestUnchanged

\* refreshAccessToken(connectionId) is invoked by itself
RefreshAccessTokenStart(c) ==
  /\ tk.pc = "idle"
  /\ mb.pc = "idle"
  /\ calls < MaxCalls
  /\ calls' = calls + 1
  /\ tk' = [IdleCall EXCEPT !.pc = "refresh", !.conn = c, !.direct = TRUE,
                            !.refreshCalls = 1]
  /\ UNCHANGED <<tokens, issued, now, ticks, mb>>
  /\ IngestUnchanged

\* variant: every call refreshes, whatever the expiry of the stored token
GetAccessTokenLookup_AlwaysRefresh ==
  /\ tk.pc = "lookup"
  /\ LET toks == tokens[tk.conn]
     IN IF connState[tk.conn] = "missing" \/ Len(toks) = 0
        THEN tk' = [tk EXCEPT !.pc = "done", !.result = "threw"]
        ELSE tk' = [tk EXCEPT !.pc = "refresh", !.refreshCalls = @ + 1,
                              !.seen = LatestToken(toks), !.seenAt = now]
  /\ UNCHANGED <<tokens, issued, now, ticks, calls, mb>>
  /\ IngestUnchanged

\* exchangeConnection.findUnique with the latest token, and the expiry check
GetAccessTokenLookup ==
  /\ tk.pc = "lookup"
  /\ LET toks == tokens[tk.conn]
     IN IF connState[tk.conn] = "missing" \/ Len(toks) = 0
        THEN tk' = [tk EXCEPT !.pc = "done", !.result = "threw"]
        ELSE IF IsTokenValid(LatestToken(toks), now)
        THEN tk' = [tk EXCEPT !.pc = "done", !.result = "returned",
                              !.token = LatestToken(toks), !.at = now,
                              !.seen = LatestToken(toks), !.seenAt = now]
        ELSE tk' = [tk EXCEPT !.pc = "refresh", !.refreshCalls = @ + 1,
                              !.seen = LatestToken(toks), !.seenAt = now]
  /\ UNCHANGED <<tokens, issued, now, ticks, calls, mb>>
  /\ IngestUnchanged

\* refreshAccessToken: the lookup and the checks before the request
RefreshLookup ==
  /\ tk.pc = "refresh"
  /\ IF CanRefresh(tk.conn, tokens[tk.conn])
     THEN tk' = [tk EXCEPT !.pc = "request", !.before = tokens[tk.conn],
                           !.cur = LatestToken(tokens[tk.conn])]
     ELSE tk' = RefreshFailed([tk EXCEPT !.before = tokens[tk.conn]])
  /\ UNCHANGED <<tokens, issued, now, ticks, calls, mb>>
  /\ IngestUnchanged

\* the POST to the token endpoint and its response (a rejected fetch is
\* caught like a non-2xx response)
RefreshRequest ==
  /\ tk.pc = "request"
  /\ \E resp \in TokenResponses :
       IF resp.ok
       THEN tk' = [tk EXCEPT !.pc = "store", !.requests = @ + 1,
                             !.response = "ok",
                             !.expiresAt = now + resp.expires_in * 1000,
                             !.newRefresh = resp.newRefresh]
       ELSE tk' = RefreshFailed([tk EXCEPT !.requests = @ + 1,
                                           !.response = "failed"])
  /\ UNCHANGED <<tokens, issued, now, ticks, calls, mb>>
  /\ IngestUnchanged

\* exchangeToken.create with the new token; a rejected insert is caught
RefreshStore ==
  /\ tk.pc = "store"
  /\ LET cr == TokenCreate(tokens[tk.conn],
                 [accessToken |-> issued + 1,
                  refreshToken |-> IF tk.newRefresh THEN issued + 1
                                   ELSE tk.cur.refreshToken,
                  expiresAt |-> tk.expiresAt])
     IN /\ tokens' = [tokens EXCEPT ![tk.conn] = cr.toks]
        /\ tk' = IF ~cr.ok THEN RefreshFailed(tk)
                 ELSE IF tk.direct
                 THEN [tk EXCEPT !.pc = "done", !.refreshed = "true",
                                 !.result = "true"]
                 ELSE [tk EXCEPT !.pc = "reload", !.refreshed = "true"]
  /\ issued' = issued + 1
  /\ UNCHANGED <<now, ticks, calls, mb>>
  /\ IngestUnchanged

\* exchangeToken.findFirst after the refresh; its access token is returned
GetAccessTokenReload ==
  /\ tk.pc = "reload"
  /\ IF Len(tokens[tk.conn]) = 0
     THEN tk' = [tk EXCEPT !.pc = "done", !.result = "threw"]
     ELSE tk' = [tk EXCEPT !.pc = "done", !.result = "returned",
                           !.token = LatestToken(tokens[tk.conn]), !.at = now]
  /\ UNCHANGED <<tokens, issued, now, ticks, calls, mb>>
  /\ IngestUnchanged

\* the caller has taken the result
GetAccessTokenEnd ==
  /\ tk.pc = "done"
  /\ mb.pc = "idle"
  /\ tk' = IdleCall
  /\ UNCHANGED <<tokens, issued, now, ticks, calls, mb>>
  /\ IngestUnchanged

\* the four calls of the mailbox client; each obtains a token and then
\* sends one request to the Graph API
MailboxMethods == {"getEmails", "sendEmail", "testConnection", "getUserProfile"}

\* testConnection and sendEmail report a failure as false, getEmails and
\* getUserProfile rethrow it
MailboxFailure(method) ==
  IF method \in {"testConnection", "sendEmail"} THEN "false" ELSE "threw"

\* testConnection and sendEmail return response.ok, the others the body
MailboxSuccess(method) ==
  IF method \in {"testConnection", "sendEmail"} THEN "true" ELSE "returned"

\* a mailbox client call is invoked and calls getAccessToken
MailboxCallStart(method, c) ==
  /\ tk.pc = "idle"
  /\ mb.pc = "idle"
  /\ calls < MaxCalls
  /\ calls' = calls + 1
  /\ mb' = [IdleMailbox EXCEPT !.pc = "token", !.method = method]
  /\ tk' = [IdleCall EXCEPT !.pc = "lookup", !.conn = c]
  /\ UNCHANGED <<tokens, issued, now, ticks>>
  /\ IngestUnchanged

\* getAccessToken threw: the call ends without a request to the Graph API
MailboxTokenFailed ==
  /\ mb.pc = "token"
  /\ tk.pc = "done"
  /\ tk.result = "threw"
  /\ mb' = [mb EXCEPT !.pc = "done", !.result = MailboxFailure(mb.method)]
  /\ UNCHANGED <<tokens, issued, now, ticks, calls, tk>>
  /\ IngestUnchanged

\* the fetch to the Graph API with the bearer token, and its response
MailboxRequest ==
  /\ mb.pc = "token"
  /\ tk.pc = "done"
  /\ tk.result = "returned"
  /\ \E ok \in BOOLEAN :
       mb' = [mb EXCEPT !.pc = "done", !.apiRequests = @ + 1,
                        !.result = IF ok THEN MailboxSuccess(mb.method)
                                   ELSE MailboxFailure(mb.method)]
  /\ UNCHANGED <<tokens, issued, now, ticks, calls, tk>>
  /\ IngestUnchanged

\* the caller has taken the result of the mailbox client call
MailboxCallEnd ==
  /\ mb.pc = "done"
  /\ mb' = IdleMailbox
  /\ tk' = IdleCall
  /\ UNCHANGED <<tokens, issued, now, ticks, calls>>
  /\ IngestUnchanged

\* one minute passes
Tick ==
  /\ ticks < MaxTicks
  /\ ticks' = ticks + 1
  /\ now' = now + 60 * 1000
  /\ UNCHANGED <<tokens, issued, tk, mb, calls>>
  /\ IngestUnchanged

(***************************************************************************)
(* Authorization flow: OAuthService                                        *)
(***************************************************************************)
NoSession == [state |-> 0, createdAt |-> 0, expiresAt |-> 0, conn |-> NoConn]
IdleCallback == [pc |-> "idle", state |-> 0, session |-> NoSession,
                 conn |-> NoConn, result |-> "none", late |-> FALSE,
                 exchanged |-> FALSE, created |-> FALSE, expiresAt |-> 0,
                 newRefresh |-> FALSE]
IdleRevoke == [pc |-> "idle", conn |-> NoConn, result |-> "none",
               remote |-> "none"]
NoSweep == [outcome |-> "none", storeFailed |-> FALSE]

\* the state values a caller can present: the ones generated so far, and 0
\* for a value that was never generated
StateValues == 0..MaxSessions

\* generateState(): a random token, taken to differ from every earlier one
FreshState == minted + 1

\* variant: a session is refused from the instant of its expiry on
SessionExpired_Inclusive(session, t) == t >= session.expiresAt

\* new Date() > session.expiresAt
SessionExpired(session, t) == t > session.expiresAt

\* where: { expiresAt: { lt: now } }
SweptSessions(rows, t) == {x \in rows : x.expiresAt < t}

\* variant: a state that matches no session falls back to a stored session
FindSession_AnySession(rows, s) ==
  IF \E x \in rows : x.state = s
  THEN CHOOSE x \in rows : x.state = s
  ELSE IF rows # {} THEN CHOOSE x \in rows : TRUE
  ELSE NoSession

\* exchangeOAuthSession.findUnique({ where: { state } })
FindSession(rows, s) ==
  IF \E x \in rows : x.state = s
  THEN CHOOSE x \in rows : x.state = s
  ELSE NoSession

\* exchangeConnection.findFirst({ userId, isActive: true }, createdAt desc):
\* both connections belong to the user of the session, B is the newer one
LatestActiveConnection ==
  IF connState["B"] = "active" THEN "B"
  ELSE IF connState["A"] = "active" THEN "A"
  ELSE NoConn

AuthUnchanged ==
  UNCHANGED <<libraryVars, logs, mappings, tickets, comments, run, ghost, started, faults,
              logFault, connState, secretSet, uniqueTokenIndex, tk, mb>>

\* generateAuthUrl for connection c of the user: one session row is stored
GenerateAuthUrl(c) ==
  /\ connState[c] = "active"
  /\ minted < MaxSessions
  /\ calls < MaxCalls
  /\ calls' = calls + 1
  /\ minted' = minted + 1
  /\ sessions' = sessions \cup {[state |-> FreshState, createdAt |-> now,
                                  expiresAt |-> now + SessionLifetime,
                                  conn |-> c]}
  /\ UNCHANGED <<tokens, issued, now, ticks, cb, rv, sweep, consumed>>
  /\ AuthUnchanged

\* handleCallback(code, state) is invoked; the invocation takes the first
\* free slot
HandleCallbackStart(h, s) ==
  /\ cb[h].pc = "idle"
  /\ \A g \in Callers : g < h => cb[g].pc # "idle"
  /\ s <= minted
  /\ calls < MaxCalls
  /\ calls' = calls + 1
  /\ cb' = [cb EXCEPT ![h] = [IdleCallback EXCEPT !.pc = "findSession",
                                                  !.state = s,
                                                  !.late = s \in consumed]]
  /\ UNCHANGED <<tokens, issued, now, ticks, sessions, minted, rv, sweep, consumed>>
  /\ AuthUnchanged

\* exchangeOAuthSession.findUnique and the two checks on its result
CallbackFindSession(h) ==
  /\ cb[h].pc = "findSession"
  /\ LET session == FindSession(sessions, cb[h].state)
     IN cb' = [cb EXCEPT ![h] =
          IF session = NoSession
          THEN [@ EXCEPT !.pc = "done", !.result = "Invalid or expired OAuth session"]
          ELSE IF SessionExpired(session, now)
          THEN [@ EXCEPT !.pc = "deleteExpired", !.session = session]
          ELSE [@ EXCEPT !.pc = "findConnection", !.session = session]]
  /\ UNCHANGED <<tokens, issued, now, ticks, calls, sessions, minted, rv, sweep, consumed>>
  /\ AuthUnchanged

\* exchangeOAuthSession.delete of the expired session, then the throw; the
\* delete of a row that is gone is rejected by the store
CallbackDeleteExpired(h) ==
  /\ cb[h].pc = "deleteExpired"
  /\ IF cb[h].session \in sessions
     THEN /\ sessions' = sessions \ {cb[h].session}
          /\ cb' = [cb EXCEPT ![h].pc = "done",
                              ![h].result = "OAuth session has expired"]
     ELSE /\ sessions' = sessions
          /\ cb' = [cb EXCEPT ![h].pc = "done",
                              ![h].result = "Record to delete does not exist"]
  /\ UNCHANGED <<tokens, issued, now, ticks, calls, minted, rv, sweep, consumed>>
  /\ AuthUnchanged

\* exchangeConnection.findFirst for the user, then the client secret
CallbackFindConnection(h) ==
  /\ cb[h].pc = "findConnection"
  /\ cb' = [cb EXCEPT ![h] =
       IF LatestActiveConnection = NoConn
       THEN [@ EXCEPT !.pc = "done",
                      !.result = "No active connection found for user"]
       ELSE IF ~secretSet
       THEN [@ EXCEPT !.pc = "done", !.conn = LatestActiveConnection,
                      !.result = "Microsoft client secret not configured"]
       ELSE [@ EXCEPT !.pc = "exchange", !.conn = LatestActiveConnection]]
  /\ UNCHANGED <<tokens, issued, now, ticks, calls, sessions, minted, rv, sweep, consumed>>
  /\ AuthUnchanged

\* responses of the token endpoint to an authorization code: a failure, or
\* tokens with the longer lifetime
CodeResponses == {resp \in TokenResponses : resp.ok => resp.expires_in = 360}

\* the POST of the authorization code to the token endpoint
CallbackExchange(h) ==
  /\ cb[h].pc = "exchange"
  /\ \E resp \in CodeResponses :
       cb' = [cb EXCEPT ![h] =
         IF resp.ok
         THEN [@ EXCEPT !.pc = "store", !.exchanged = TRUE,
                        !.expiresAt = now + resp.expires_in * 1000,
                        !.newRefresh = resp.newRefresh]
         ELSE [@ EXCEPT !.pc = "done", !.exchanged = TRUE,
                        !.result = "Token exchange failed"]]
  /\ UNCHANGED <<tokens, issued, now, ticks, calls, sessions, minted, rv, sweep, consumed>>
  /\ AuthUnchanged

\* exchangeToken.create with the tokens of the response
CallbackStoreToken(h) ==
  /\ cb[h].pc = "store"
  /\ LET cr == TokenCreate(tokens[cb[h].conn],
                 [accessToken |-> issued + 1,
                  refreshToken |-> IF cb[h].newRefresh THEN issued + 1 ELSE 0,
                  expiresAt |-> cb[h].expiresAt])
     IN /\ tokens' = [tokens EXCEPT ![cb[h].conn] = cr.toks]
        /\ cb' = [cb EXCEPT ![h] =
             IF cr.ok
             THEN [@ EXCEPT !.pc = "deleteSession", !.created = TRUE]
             ELSE [@ EXCEPT !.pc = "done", !.result = "Unique constraint failed"]]
  /\ issued' = issued + 1
  /\ UNCHANGED <<now, ticks, calls, sessions, minted, rv, sweep, consumed>>
  /\ AuthUnchanged

\* variant: the session is left in place after the tokens are stored
CallbackDeleteSession_KeepsSession(h) ==
  /\ cb[h].pc = "deleteSession"
  /\ sessions' = sessions
  /\ cb' = [cb EXCEPT ![h].pc = "reload"]
  /\ UNCHANGED <<tokens, issued, now, ticks, calls, minted, rv, sweep, consumed>>
  /\ AuthUnchanged

\* exchangeOAuthSession.delete of the consumed session
CallbackDeleteSession(h) ==
  /\ cb[h].pc = "deleteSession"
  /\ IF cb[h].session \in sessions
     THEN /\ sessions' = sessions \ {cb[h].session}
          /\ cb' = [cb EXCEPT ![h].pc = "reload"]
     ELSE /\ sessions' = sessions
          /\ cb' = [cb EXCEPT ![h].pc = "done",
                              ![h].result = "Record to delete does not exist"]
  /\ UNCHANGED <<tokens, issued, now, ticks, calls, minted, rv, sweep, consumed>>
  /\ AuthUnchanged

\* exchangeConnection.findUnique of the connection, which is returned
CallbackReload(h) ==
  /\ cb[h].pc = "reload"
  /\ IF connState[cb[h].conn] = "missing"
     THEN /\ cb' = [cb EXCEPT ![h].pc = "done",
                              ![h].result = "Failed to retrieve updated connection"]
          /\ consumed' = consumed
     ELSE /\ cb' = [cb EXCEPT ![h].pc = "done", ![h].result = "ok"]
          /\ consumed' = consumed \cup {cb[h].state}
  /\ UNCHANGED <<tokens, issued, now, ticks, calls, sessions, minted, rv, sweep>>
  /\ AuthUnchanged

\* the caller has taken the result of handleCallback
CallbackEnd(h) ==
  /\ cb[h].pc = "done"
  /\ cb' = [cb EXCEPT ![h] = IdleCallback]
  /\ UNCHANGED <<tokens, issued, now, ticks, calls, sessions, minted, rv, sweep,
                 consumed>>
  /\ AuthUnchanged

\* revokeTokens(connectionId) is invoked
RevokeTokensStart(c) ==
  /\ rv.pc = "idle"
  /\ calls < MaxCalls
  /\ calls' = calls + 1
  /\ rv' = [IdleRevoke EXCEPT !.pc = "lookup", !.conn = c]
  /\ UNCHANGED <<tokens, issued, now, ticks, sessions, minted, cb, sweep, consumed>>
  /\ AuthUnchanged

\* exchangeConnection.findUnique with the latest token
RevokeLookup ==
  /\ rv.pc = "lookup"
  /\ rv' = IF connState[rv.conn] = "missing" \/ Len(tokens[rv.conn]) = 0
            THEN [rv EXCEPT !.pc = "done", !.result = "true"]
            ELSE IF LatestToken(tokens[rv.conn]).refreshToken # 0
            THEN [rv EXCEPT !.pc = "remote"]
            ELSE [rv EXCEPT !.pc = "delete"]
  /\ UNCHANGED <<tokens, issued, now, ticks, calls, sessions, minted, cb, sweep,
                 consumed>>
  /\ AuthUnchanged

\* variant: a network error of the remote revocation ends the call
RevokeRemote_AbortsOnNetworkError ==
  /\ rv.pc = "remote"
  /\ \E sent \in BOOLEAN :
       rv' = IF sent THEN [rv EXCEPT !.pc = "delete", !.remote = "sent"]
             ELSE [rv EXCEPT !.pc = "done", !.remote = "network error",
                             !.result = "true"]
  /\ UNCHANGED <<tokens, issued, now, ticks, calls, sessions, minted, cb, sweep,
                 consumed>>
  /\ AuthUnchanged

\* the POST to the provider's logout endpoint; its status is not read and a
\* rejected fetch is caught
RevokeRemote ==
  /\ rv.pc = "remote"
  /\ \E sent \in BOOLEAN :
       rv' = [rv EXCEPT !.pc = "delete",
                        !.remote = IF sent THEN "sent" ELSE "network error"]
  /\ UNCHANGED <<tokens, issued, now, ticks, calls, sessions, minted, cb, sweep,
                 consumed>>
  /\ AuthUnchanged

\* exchangeToken.deleteMany for the connection; a store failure is caught
RevokeDelete ==
  /\ rv.pc = "delete"
  /\ \E stored \in BOOLEAN :
       IF stored
       THEN /\ tokens' = [tokens EXCEPT ![rv.conn] = <<>>]
            /\ rv' = [rv EXCEPT !.pc = "done", !.result = "true"]
       ELSE /\ tokens' = tokens
            /\ rv' = [rv EXCEPT !.pc = "done", !.result = "false"]
  /\ UNCHANGED <<issued, now, ticks, calls, sessions, minted, cb, sweep, consumed>>
  /\ AuthUnchanged

\* the caller has taken the result of revokeTokens
RevokeEnd ==
  /\ rv.pc = "done"
  /\ rv' = IdleRevoke
  /\ UNCHANGED <<tokens, issued, now, ticks, calls, sessions, minted, cb, sweep,
                 consumed>>
  /\ AuthUnchanged

\* variant: the sweep also removes the sessions that expire at this instant
CleanupExpiredSessions_Inclusive ==
  /\ calls < MaxCalls
  /\ calls' = calls + 1
  /\ \E stored \in BOOLEAN :
       /\ sessions' = IF stored
                      THEN {x \in sessions : x.expiresAt > now}
                      ELSE sessions
       /\ sweep' = [outcome |-> "returned", storeFailed |-> ~stored]
  /\ UNCHANGED <<tokens, issued, now, ticks, minted, cb, rv, consumed>>
  /\ AuthUnchanged

\* cleanupExpiredSessions(): one deleteMany; a store failure is caught
CleanupExpiredSessions ==
  /\ calls < MaxCalls
  /\ calls' = calls + 1
  /\ \E stored \in BOOLEAN :
       /\ sessions' = IF stored
                      THEN sessions \ SweptSessions(sessions, now)
                      ELSE sessions
       /\ sweep' = [outcome |-> "returned", storeFailed |-> ~stored]
  /\ UNCHANGED <<tokens, issued, now, ticks, minted, cb, rv, consumed>>
  /\ AuthUnchanged

\* a token row as handleCallback stores it: lifetime granted at time 0
InitialTokens ==
  {<<>>} \cup {<<[accessToken |-> 0, refreshToken |-> rt, expiresAt |-> e * 1000]>> :
                 rt \in {0, 1}, e \in ExpiresIn}

\* connection B at the start: usable, with a token that cannot be refreshed,
\* deactivated, or deleted (its tokens are deleted with it)
InitialB ==
  {[state |-> "active",
    toks |-> <<[accessToken |-> 0, refreshToken |-> 1, expiresAt |-> 360000]>>],
   [state |-> "active",
    toks |-> <<[accessToken |-> 0, refreshToken |-> 0, expiresAt |-> 60000]>>],
   [state |-> "inactive",
    toks |-> <<[accessToken |-> 0, refreshToken |-> 1, expiresAt |-> 60000]>>],
   [state |-> "missing", toks |-> <<>>]}

\* connection A alone, authorized, and no invocation in progress
CoreIdle ==
  /\ connState = [c \in Conns |-> IF c = "A" THEN "active" ELSE "missing"]
  /\ tokens = [c \in Conns |->
                 IF c = "A" THEN <<[accessToken |-> 0, refreshToken |-> 1,
                                    expiresAt |-> 360000]>>
                 ELSE <<>>]
  /\ secretSet = TRUE
  /\ uniqueTokenIndex = TRUE
  /\ issued = 0
  /\ now = 0
  /\ logs = [m \in MsgIds |-> NoLog]
  /\ mappings = {}
  /\ tickets = <<>>
  /\ comments = <<>>
  /\ run = [r \in Runs |-> IdleRun]
  /\ ghost = [r \in Runs |-> NoHistory]
  /\ started = 0
  /\ faults = 0
  /\ logFault = FALSE
  /\ tk = IdleCall
  /\ mb = IdleMailbox
  /\ sessions = {}
  /\ minted = 0
  /\ cb = [h \in Callers |-> IdleCallback]
  /\ rv = IdleRevoke
  /\ sweep = NoSweep
  /\ consumed = {}
  /\ calls = 0
  /\ ticks = 0
  /\ emailProviderEnv = "smtp"

Init ==
  /\ \E b \in InitialB :
       /\ connState = [c \in Conns |-> IF c = "A" THEN "active" ELSE b.state]
       /\ tokens = [c \in Conns |->
                      IF c = "A" THEN <<[accessToken |-> 0, refreshToken |-> 1,
                                         expiresAt |-> 360000]>>
                      ELSE b.toks]
  /\ secretSet = TRUE
  /\ uniqueTokenIndex = TRUE
  /\ issued = 0
  /\ now = 0
  /\ logs = [m \in MsgIds |-> NoLog]
  /\ mappings = {}
  /\ tickets = <<>>
  /\ comments = <<>>
  /\ run = [r \in Runs |-> IdleRun]
  /\ ghost = [r \in Runs |-> NoHistory]
  /\ started = 0
  /\ faults = 0
  /\ logFault = FALSE
  /\ tk = IdleCall
  /\ mb = IdleMailbox
  /\ sessions = {}
  /\ minted = 0
  /\ cb = [h \in Callers |-> IdleCallback]
  /\ rv = IdleRevoke
  /\ sweep = NoSweep
  /\ consumed = {}
  /\ calls = 0
  /\ ticks = 0
  /\ emailProviderEnv = "smtp"
  /\ LibraryInit

\* concurrent invocations of processEmails
Next ==
  \E r \in Runs :
    \/ \E c \in Conns, lim \in 1..MaxLimit : StartProcessEmails(r, c, lim)
    \/ RunBody(r)

Spec == Init /\ [][Next]_vars

\* invocations that do not overlap in time
NoOtherRunActive(r) == \A q \in Runs \ {r} : run[q].pc = "idle"

\* processEmails is invoked while no other invocation is in progress
StartAlone(r, c, lim) == NoOtherRunActive(r) /\ StartProcessEmails(r, c, lim)

NextSeq ==
  \E r \in Runs :
    \/ \E c \in Conns, lim \in 1..MaxLimit : StartAlone(r, c, lim)
    \/ RunBody(r)

SpecSeq == Init /\ [][NextSeq]_vars

InitToken ==
  /\ connState \in {f \in [Conns -> {"active", "missing"}] : f["B"] = "missing"}
  /\ secretSet \in BOOLEAN
  /\ uniqueTokenIndex \in BOOLEAN
  /\ tokens \in {f \in [Conns -> InitialTokens] :
                   /\ f["B"] = <<>>
                   /\ connState["A"] = "missing" => f["A"] = <<>>}
  /\ issued = 0
  /\ now = 0
  /\ logs = [m \in MsgIds |-> NoLog]
  /\ mappings = {}
  /\ tickets = <<>>
  /\ comments = <<>>
  /\ run = [r \in Runs |-> IdleRun]
  /\ ghost = [r \in Runs |-> NoHistory]
  /\ started = 0
  /\ faults = 0
  /\ logFault = FALSE
  /\ tk = IdleCall
  /\ mb = IdleMailbox
  /\ sessions = {}
  /\ minted = 0
  /\ cb = [h \in Callers |-> IdleCallback]
  /\ rv = IdleRevoke
  /\ sweep = NoSweep
  /\ consumed = {}
  /\ calls = 0
  /\ ticks = 0
  /\ emailProviderEnv = "smtp"
  /\ LibraryInit

NextToken ==
  \/ \E c \in Conns : GetAccessTokenStart(c)
  \/ \E c \in Conns : RefreshAccessTokenStart(c)
  \/ \E c \in Conns, method \in MailboxMethods : MailboxCallStart(method, c)
  \/ MailboxTokenFailed
  \/ MailboxRequest
  \/ MailboxCallEnd
  \/ GetAccessTokenLookup
  \/ RefreshLookup
  \/ RefreshRequest
  \/ RefreshStore
  \/ GetAccessTokenReload
  \/ GetAccessTokenEnd
  \/ Tick

SpecToken == InitToken /\ [][NextToken]_vars

\* the user's connections and their TokenSets at the start: A alone and not
\* yet authorized, A alone and authorized before, A and the newer B, no
\* active connection, and A without a configured client secret
InitialAuth ==
  {[A |-> "active", B |-> "missing", secret |-> TRUE, authorized |-> FALSE],
   [A |-> "active", B |-> "missing", secret |-> TRUE, authorized |-> TRUE],
   [A |-> "active", B |-> "active", secret |-> TRUE, authorized |-> TRUE],
   [A |-> "inactive", B |-> "missing", secret |-> TRUE, authorized |-> TRUE],
   [A |-> "active", B |-> "missing", secret |-> FALSE, authorized |-> FALSE]}

\* one session is pending: generateAuthUrl stored it eight minutes ago for
\* connection A, so that it expires two minutes from now
InitAuth ==
  /\ \E i \in InitialAuth :
       /\ connState = [c \in Conns |-> i[c]]
       /\ secretSet = i.secret
       /\ tokens = [c \in Conns |->
                      IF c = "A" /\ i.authorized
                      THEN <<[accessToken |-> 0, refreshToken |-> 1,
                              expiresAt |-> 360000]>>
                      ELSE <<>>]
  /\ uniqueTokenIndex \in BOOLEAN
  /\ issued = 0
  /\ now = 0
  /\ logs = [m \in MsgIds |-> NoLog]
  /\ mappings = {}
  /\ tickets = <<>>
  /\ comments = <<>>
  /\ run = [r \in Runs |-> IdleRun]
  /\ ghost = [r \in Runs |-> NoHistory]
  /\ started = 0
  /\ faults = 0
  /\ logFault = FALSE
  /\ tk = IdleCall
  /\ mb = IdleMailbox
  /\ sessions = {[state |-> 1, createdAt |-> 2 * 60 * 1000 - SessionLifetime,
                  expiresAt |-> 2 * 60 * 1000, conn |-> "A"]}
  /\ minted = 1
  /\ cb = [h \in Callers |-> IdleCallback]
  /\ rv = IdleRevoke
  /\ sweep = NoSweep
  /\ consumed = {}
  /\ calls = 0
  /\ ticks = 0
  /\ emailProviderEnv = "smtp"
  /\ LibraryInit

\* no handleCallback and no revokeTokens is in progress
AuthIdle == rv.pc = "idle" /\ \A h \in Callers : cb[h].pc = "idle"

\* the operations of the authorization flow, invoked one after the other
GenerateAuthUrlAlone(c) == AuthIdle /\ GenerateAuthUrl(c)
HandleCallbackAlone(h, s) == AuthIdle /\ HandleCallbackStart(h, s)
RevokeTokensAlone(c) == AuthIdle /\ RevokeTokensStart(c)
CleanupAlone == AuthIdle /\ CleanupExpiredSessions

\* one minute passes between two operations of the authorization flow (an
\* operation reads the clock once per decision and takes no model time)
TickBetweenCalls == AuthIdle /\ Tick

NextAuth ==
  \/ \E c \in Conns : GenerateAuthUrlAlone(c)
  \/ \E h \in Callers :
       \/ \E s \in StateValues : HandleCallbackAlone(h, s)
       \/ CallbackFindSession(h)
       \/ CallbackDeleteExpired(h)
       \/ CallbackFindConnection(h)
       \/ CallbackExchange(h)
       \/ CallbackStoreToken(h)
       \/ CallbackDeleteSession(h)
       \/ CallbackReload(h)
       \/ CallbackEnd(h)
  \/ \E c \in Conns : RevokeTokensAlone(c)
  \/ RevokeLookup
  \/ RevokeRemote
  \/ RevokeDelete
  \/ RevokeEnd
  \/ CleanupAlone
  \/ TickBetweenCalls

SpecAuth == InitAuth /\ [][NextAuth]_vars

\* handleCallback invocations that overlap in time
NextCallbacks ==
  \/ \E h \in Callers :
       \/ \E s \in StateValues : HandleCallbackStart(h, s)
       \/ CallbackFindSession(h)
       \/ CallbackDeleteExpired(h)
       \/ CallbackFindConnection(h)
       \/ CallbackExchange(h)
       \/ CallbackStoreToken(h)
       \/ CallbackDeleteSession(h)
       \/ CallbackReload(h)
       \/ CallbackEnd(h)
  \/ Tick

SpecCallbacks == InitAuth /\ [][NextCallbacks]_vars

\* revokeTokens running while getAccessToken or refreshAccessToken runs: the
\* awaits of the two calls interleave freely
NextRevoke ==
  \/ \E c \in Conns : RevokeTokensStart(c)
  \/ RevokeLookup
  \/ RevokeRemote
  \/ RevokeDelete
  \/ RevokeEnd
  \/ \E c \in Conns : GetAccessTokenStart(c)
  \/ \E c \in Conns : RefreshAccessTokenStart(c)
  \/ GetAccessTokenLookup
  \/ RefreshLookup
  \/ RefreshRequest
  \/ RefreshStore
  \/ GetAccessTokenReload
  \/ GetAccessTokenEnd
  \/ Tick

SpecRevoke == InitToken /\ [][NextRevoke]_vars

(***************************************************************************)
(* Outbound dispatcher: EmailService, ExchangeEmailProvider and            *)
(* SMTPEmailProvider                                                       *)
(***************************************************************************)
\* JavaScript truthiness of the modelled values: undefined, the empty string
\* and false are falsy
Truthy(v) == v \notin {Undefined, "", "false"}

\* TicketEmailContext: the optional fields are absent, empty or set
TicketContexts ==
  [ticketId : {"t1"}, ticketNumber : {"7"},
   isReply : {Undefined, "true", "false"},
   originalMessageId : {Undefined, "", "<m1>"},
   threadId : {Undefined, "", "th1"}]

\* to: string | string[], one recipient or two
Recipients == {<<"a">>, <<"a", "b">>}

\* the config argument of initializeProvider: absent, or given by the caller
ProviderConfigs ==
  {NoConfig,
   [provider |-> "smtp", connectionId |-> NoConn],
   [provider |-> "exchange", connectionId |-> "A"],
   [provider |-> "exchange", connectionId |-> NoConn]}

\* ...(cond && { [name]: value }) inside an object literal
SpreadIf(cond, name, value) == IF Truthy(cond) THEN name :> value ELSE <<>>

\* variant: the message type is attached to replies only
TicketHeaders_TypeForRepliesOnly(context) ==
  ("X-Peppermint-Ticket-ID" :> context.ticketId)
  @@ ("X-Peppermint-Ticket-Number" :> context.ticketNumber)
  @@ ("X-Peppermint-System" :> "peppermint-helpdesk")
  @@ ("X-Auto-Response-Suppress" :> "OOF, DR, RN, NRN, AutoReply")
  @@ SpreadIf(context.threadId, "X-Peppermint-Thread-ID", context.threadId)
  @@ SpreadIf(context.originalMessageId, "X-Peppermint-Original-Message-ID",
              context.originalMessageId)
  @@ SpreadIf(context.isReply, "X-Peppermint-Message-Type", "reply")

\* message.headers of sendTicketEmail; no name occurs twice in the literal
TicketHeaders(context) ==
  ("X-Peppermint-Ticket-ID" :> context.ticketId)
  @@ ("X-Peppermint-Ticket-Number" :> context.ticketNumber)
  @@ ("X-Peppermint-System" :> "peppermint-helpdesk")
  @@ ("X-Auto-Response-Suppress" :> "OOF, DR, RN, NRN, AutoReply")
  @@ SpreadIf(context.threadId, "X-Peppermint-Thread-ID", context.threadId)
  @@ SpreadIf(context.originalMessageId, "X-Peppermint-Original-Message-ID",
              context.originalMessageId)
  @@ SpreadIf(context.isReply, "X-Peppermint-Message-Type", "reply")
  @@ SpreadIf(IF Truthy(context.isReply) THEN "false" ELSE "true",
              "X-Peppermint-Message-Type", "notification")

\* the EmailMessage sendTicketEmail builds from the context
TicketMessage(context) ==
  [inReplyTo |-> context.originalMessageId,
   references |-> IF Truthy(context.originalMessageId)
                  THEN context.originalMessageId ELSE Undefined,
   threadId |-> context.threadId,
   headers |-> TicketHeaders(context)]

\* the header names in the order sendTicketEmail inserts them
HeaderNames ==
  <<"X-Peppermint-Ticket-ID", "X-Peppermint-Ticket-Number",
    "X-Peppermint-System", "X-Auto-Response-Suppress",
    "X-Peppermint-Thread-ID", "X-Peppermint-Original-Message-ID",
    "X-Peppermint-Message-Type">>

\* Object.entries(customHeaders) as { name, value } items
HeaderEntries(headers) ==
  LET InHeaders(n) == n \in DOMAIN headers
      present == SelectSeq(HeaderNames, InHeaders)
  IN [i \in 1..Len(present) |->
        [name |-> present[i], value |-> headers[present[i]]]]

\* message.internetMessageHeaders of MicrosoftGraphService.sendEmail
GraphHeaders(replyToMessageId, customHeaders) ==
  (IF Truthy(replyToMessageId)
   THEN <<[name |-> "In-Reply-To", value |-> replyToMessageId],
          [name |-> "References", value |-> replyToMessageId]>>
   ELSE <<>>)
  \o HeaderEntries(customHeaders)

\* mailOptions of SMTPEmailProvider.sendEmail
MailOptions(message) ==
  [inReplyTo |-> IF Truthy(message.inReplyTo) THEN message.inReplyTo
                 ELSE Undefined,
   references |-> IF Truthy(message.references) THEN message.references
                  ELSE Undefined,
   headers |-> message.headers]

\* what initializeProvider does with the configuration it was given or has
\* loaded: the config and provider fields afterwards and the error thrown
ResolveProvider(service, config) ==
  IF config.provider = "exchange"
  THEN IF config.connectionId = NoConn
       THEN [es |-> [service EXCEPT !.config = "exchange"],
             error |-> "Exchange connection ID is required"]
       ELSE [es |-> [provider |-> ExchangeProvider(config.connectionId),
                     config |-> "exchange"],
             error |-> NoErr]
  ELSE [es |-> [provider |-> SMTPProvider, config |-> "smtp"],
        error |-> NoErr]

\* variant: without an active connection the configuration names SMTP
LoadConfiguration_FallsBackToSmtp ==
  IF emailProviderEnv = "exchange" /\ LatestActiveConnection # NoConn
  THEN [provider |-> "exchange", connectionId |-> LatestActiveConnection,
        error |-> NoErr]
  ELSE [provider |-> "smtp", connectionId |-> NoConn, error |-> NoErr]

\* loadConfiguration: the newest active connection when the environment
\* selects exchange, the SMTP settings of the environment otherwise
LoadConfiguration ==
  IF emailProviderEnv = "exchange"
  THEN IF LatestActiveConnection = NoConn
       THEN [provider |-> Undefined, connectionId |-> NoConn,
             error |-> "No active Exchange connection found"]
       ELSE [provider |-> "exchange", connectionId |-> LatestActiveConnection,
             error |-> NoErr]
  ELSE [provider |-> "smtp", connectionId |-> NoConn, error |-> NoErr]

DispatchUnchanged ==
  UNCHANGED <<logs, mappings, tickets, comments, run, ghost, started, faults,
              logFault, secretSet, uniqueTokenIndex, sessions, minted, cb, rv,
              sweep, consumed, now, ticks, emailProviderEnv, retryVars,
              limiterVars, healthVars, cryptoVars>>

\* sendTicketEmail(to, subject, html, context) is invoked: the message is
\* built and handed to sendEmail
SendTicketEmailStart(context, to) ==
  /\ st.pc = "idle"
  /\ calls < MaxCalls
  /\ calls' = calls + 1
  /\ st' = [IdleSend EXCEPT
              !.pc = IF es.provider = NoProvider THEN "init" ELSE "deliver",
              !.op = "sendTicketEmail", !.context = context, !.to = to,
              !.message = TicketMessage(context)]
  /\ UNCHANGED <<es, outbound, tk, mb, tokens, issued, connState>>
  /\ DispatchUnchanged

\* initializeProvider(config?) is invoked by a caller of the service
InitializeProviderStart(config) ==
  /\ st.pc = "idle"
  /\ calls < MaxCalls
  /\ calls' = calls + 1
  /\ st' = [IdleSend EXCEPT !.pc = "init", !.op = "initializeProvider",
                            !.config = config]
  /\ UNCHANGED <<es, outbound, tk, mb, tokens, issued, connState>>
  /\ DispatchUnchanged

\* initializeProvider: the configuration is taken or loaded and the
\* provider is constructed; an error leaves this.provider as it was
InitializeProvider ==
  /\ st.pc = "init"
  /\ LET loaded == IF st.config = NoConfig THEN LoadConfiguration
                   ELSE [provider |-> st.config.provider,
                         connectionId |-> st.config.connectionId,
                         error |-> NoErr]
         resolved == ResolveProvider(es, loaded)
         error == IF loaded.error # NoErr THEN loaded.error
                  ELSE resolved.error
     IN /\ es' = IF loaded.error # NoErr THEN es ELSE resolved.es
        /\ st' = IF error # NoErr
                 THEN [st EXCEPT !.pc = "done", !.result = "threw",
                                 !.error = error, !.inits = @ + 1]
                 ELSE [st EXCEPT !.pc = IF st.op = "sendTicketEmail"
                                        THEN "deliver" ELSE "done",
                                 !.result = IF st.op = "sendTicketEmail"
                                            THEN "none" ELSE "returned",
                                 !.inits = @ + 1]
  /\ UNCHANGED <<outbound, tk, mb, tokens, issued, connState, calls>>
  /\ DispatchUnchanged

\* SMTPEmailProvider.sendEmail: one transporter.sendMail for all recipients;
\* a rejection is caught
SmtpSendMail ==
  /\ st.pc = "deliver"
  /\ es.provider.name = "SMTP"
  /\ \E ok \in BOOLEAN :
       st' = [st EXCEPT
                !.pc = IF ok THEN "log" ELSE "done",
                !.result = IF ok THEN "none" ELSE "returned",
                !.sent = Append(@, [provider |-> "SMTP", to |-> st.to,
                                    request |-> MailOptions(st.message)]),
                !.failed = IF ok THEN @
                           ELSE Append(@, [to |-> st.to, cause |-> "transport"]),
                !.success = ok,
                !.error = IF ok THEN Undefined ELSE "SMTP sending failed"]
  /\ UNCHANGED <<es, outbound, tk, mb, tokens, issued, connState, calls>>
  /\ DispatchUnchanged

\* ExchangeEmailProvider.sendEmail calls graphService.sendEmail for the next
\* recipient, which asks for an access token
GraphSendEmail ==
  /\ st.pc = "deliver"
  /\ es.provider.name = "Exchange"
  /\ st.next <= Len(st.to)
  /\ tk.pc = "idle"
  /\ mb.pc = "idle"
  /\ calls < MaxCalls
  /\ calls' = calls + 1
  /\ mb' = [IdleMailbox EXCEPT !.pc = "token", !.method = "sendEmail"]
  /\ tk' = [IdleCall EXCEPT !.pc = "lookup", !.conn = es.provider.connectionId]
  /\ st' = [st EXCEPT !.attempted = Append(@, st.to[st.next])]
  /\ UNCHANGED <<es, outbound, tokens, issued, connState>>
  /\ DispatchUnchanged

\* errors.join('; '): the texts one after the other, "; " between two of them
RECURSIVE JoinErrors(_)
JoinErrors(errors) ==
  IF Len(errors) = 0 THEN <<>>
  ELSE IF Len(errors) = 1 THEN errors[1]
  ELSE errors[1] \o <<"; ">> \o JoinErrors(Tail(errors))

\* `Failed to send to ${recipient}`
FailedToSendTo(recipient) == <<"Failed to send to ", recipient>>

\* variant: the loop over the recipients ends at the first failed send
ExchangeTakeResult_StopsAtFirstFailure ==
  /\ st.pc = "deliver"
  /\ es.provider.name = "Exchange"
  /\ mb.pc = "done"
  /\ LET recipient == st.to[st.next]
         ok == mb.result = MailboxSuccess("sendEmail")
         request == [provider |-> "Exchange", to |-> <<recipient>>,
                     request |-> GraphHeaders(st.message.inReplyTo,
                                              st.message.headers)]
     IN st' = [st EXCEPT
                 !.next = IF ok THEN @ + 1 ELSE Len(st.to) + 1,
                 !.sent = IF mb.apiRequests > 0 THEN Append(@, request) ELSE @,
                 !.errors = IF ok THEN @ ELSE Append(@, FailedToSendTo(recipient)),
                 !.failed = IF ok THEN @
                            ELSE Append(@, [to |-> <<recipient>>,
                                            cause |-> IF mb.apiRequests > 0
                                                      THEN "response"
                                                      ELSE "token"])]
  /\ mb' = IdleMailbox
  /\ tk' = IdleCall
  /\ UNCHANGED <<es, outbound, tokens, issued, connState, calls>>
  /\ DispatchUnchanged

\* graphService.sendEmail has returned its boolean for the recipient (it
\* catches every error of its own, so the provider's inner catch is not
\* entered); a false is recorded in errors and the loop goes on
ExchangeTakeResult ==
  /\ st.pc = "deliver"
  /\ es.provider.name = "Exchange"
  /\ mb.pc = "done"
  /\ LET recipient == st.to[st.next]
         ok == mb.result = MailboxSuccess("sendEmail")
         request == [provider |-> "Exchange", to |-> <<recipient>>,
                     request |-> GraphHeaders(st.message.inReplyTo,
                                              st.message.headers)]
     IN st' = [st EXCEPT
                 !.next = @ + 1,
                 !.sent = IF mb.apiRequests > 0 THEN Append(@, request) ELSE @,
                 !.errors = IF ok THEN @ ELSE Append(@, FailedToSendTo(recipient)),
                 !.failed = IF ok THEN @
                            ELSE Append(@, [to |-> <<recipient>>,
                                            cause |-> IF mb.apiRequests > 0
                                                      THEN "response"
                                                      ELSE "token"])]
  /\ mb' = IdleMailbox
  /\ tk' = IdleCall
  /\ UNCHANGED <<es, outbound, tokens, issued, connState, calls>>
  /\ DispatchUnchanged

\* ExchangeEmailProvider.sendEmail returns after the last recipient
ExchangeReturn ==
  /\ st.pc = "deliver"
  /\ es.provider.name = "Exchange"
  /\ st.next > Len(st.to)
  /\ mb.pc = "idle"
  /\ LET success == Len(st.errors) = 0
     IN st' = [st EXCEPT !.pc = IF success THEN "log" ELSE "done",
                         !.result = IF success THEN "none" ELSE "returned",
                         !.success = success,
                         !.error = IF success THEN Undefined
                                   ELSE "Failed to send to",
                         !.errorText = JoinErrors(st.errors)]
  /\ UNCHANGED <<es, outbound, tk, mb, tokens, issued, connState, calls>>
  /\ DispatchUnchanged

\* variant: the outbound entry is written whatever the result
LogOutboundEmail_Always ==
  /\ st.pc \in {"log", "done"}
  /\ ~st.logged
  /\ st.op = "sendTicketEmail"
  /\ st.result # "threw"
  /\ outbound' = Append(outbound, [ticketId |-> st.context.ticketId,
                                   provider |-> es.provider.name])
  /\ st' = [st EXCEPT !.pc = "done", !.result = "returned", !.logged = TRUE]
  /\ UNCHANGED <<es, tk, mb, tokens, issued, connState, calls>>
  /\ DispatchUnchanged

\* logOutboundEmail after a successful send; a failure of the logger is
\* caught
LogOutboundEmail ==
  /\ st.pc = "log"
  /\ \E emitted \in BOOLEAN :
       /\ outbound' = IF emitted
                      THEN Append(outbound, [ticketId |-> st.context.ticketId,
                                             provider |-> es.provider.name])
                      ELSE outbound
       /\ st' = [st EXCEPT !.pc = "done", !.result = "returned",
                           !.logged = emitted]
  /\ UNCHANGED <<es, tk, mb, tokens, issued, connState, calls>>
  /\ DispatchUnchanged

\* the caller has taken the result or the error of the operation
SendEnd ==
  /\ st.pc = "done"
  /\ st' = IdleSend
  /\ UNCHANGED <<es, outbound, tk, mb, tokens, issued, connState, calls>>
  /\ DispatchUnchanged

\* ExchangeController.createConnection stores a new active connection
CreateConnection(c) ==
  /\ st.pc = "idle"
  /\ connState[c] = "missing"
  /\ c = "A" => connState["B"] = "missing"
  /\ connState' = [connState EXCEPT ![c] = "active"]
  /\ UNCHANGED <<es, st, outbound, tk, mb, tokens, issued, calls>>
  /\ DispatchUnchanged

\* the connections, their TokenSets and the environment at the start
InitialSend ==
  {[A |-> "missing", B |-> "missing", toks |-> <<>>],
   [A |-> "inactive", B |-> "missing", toks |-> <<>>],
   [A |-> "active", B |-> "missing", toks |-> <<>>],
   [A |-> "active", B |-> "missing",
    toks |-> <<[accessToken |-> 0, refreshToken |-> 1, expiresAt |-> 360000]>>],
   [A |-> "active", B |-> "missing",
    toks |-> <<[accessToken |-> 0, refreshToken |-> 1, expiresAt |-> 60000]>>],
   [A |-> "active", B |-> "missing",
    toks |-> <<[accessToken |-> 0, refreshToken |-> 0, expiresAt |-> 60000]>>]}

InitSend ==
  /\ \E i \in InitialSend :
       /\ connState = [c \in Conns |-> i[c]]
       /\ tokens = [c \in Conns |-> IF c = "A" THEN i.toks ELSE <<>>]
  /\ secretSet = TRUE
  /\ uniqueTokenIndex \in BOOLEAN
  /\ emailProviderEnv \in {"exchange", "smtp", Undefined}
  /\ issued = 0
  /\ now = 0
  /\ logs = [m \in MsgIds |-> NoLog]
  /\ mappings = {}
  /\ tickets = <<>>
  /\ comments = <<>>
  /\ run = [r \in Runs |-> IdleRun]
  /\ ghost = [r \in Runs |-> NoHistory]
  /\ started = 0
  /\ faults = 0
  /\ logFault = FALSE
  /\ tk = IdleCall
  /\ mb = IdleMailbox
  /\ sessions = {}
  /\ minted = 0
  /\ cb = [h \in Callers |-> IdleCallback]
  /\ rv = IdleRevoke
  /\ sweep = NoSweep
  /\ consumed = {}
  /\ calls = 0
  /\ ticks = 0
  /\ LibraryInit

NextSend ==
  \/ \E context \in TicketContexts, to \in Recipients :
       SendTicketEmailStart(context, to)
  \/ \E config \in ProviderConfigs : InitializeProviderStart(config)
  \/ InitializeProvider
  \/ SmtpSendMail
  \/ GraphSendEmail
  \/ GetAccessTokenLookup
  \/ RefreshLookup
  \/ RefreshRequest
  \/ RefreshStore
  \/ GetAccessTokenReload
  \/ MailboxTokenFailed
  \/ MailboxRequest
  \/ ExchangeTakeResult
  \/ ExchangeReturn
  \/ LogOutboundEmail
  \/ SendEnd
  \/ \E c \in Conns : CreateConnection(c)

SpecSend == InitSend /\ [][NextSend]_vars

(***************************************************************************)
(* Retry helpers: isRetryableError, getRetryDelay, withRetry               *)
(***************************************************************************)
MaxAttempts == 3

\* Math.min(..., 30000)
MaxDelay == 30000
\* baseDelay: number = 1000
DefaultBaseDelay == 1000

\* [429, 502, 503, 504]
RetryableStatus == {429, 502, 503, 504}

\* retryableMessages; a message is a sequence of words, and includes() is
\* the occurrence of the words of a pattern next to each other
RetryableMessages ==
  {<<"network", "error">>, <<"timeout">>, <<"rate", "limit">>,
   <<"temporarily", "unavailable">>, <<"service", "unavailable">>}

\* String.prototype.toLowerCase on the words that occur in the messages
ToLowerCase(w) ==
  CASE w = "Network" -> "network"
    [] w = "Timeout" -> "timeout"
    [] w = "Rate" -> "rate"
    [] w = "Limit" -> "limit"
    [] w = "Service" -> "service"
    [] w = "Unavailable" -> "unavailable"
    [] w = "Request" -> "request"
    [] w = "Bad" -> "bad"
    [] w = "Authentication" -> "authentication"
    [] w = "Graph" -> "graph"
    [] w = "API" -> "api"
    [] OTHER -> w

LowerCased(message) == [i \in DOMAIN message |-> ToLowerCase(message[i])]

\* message.includes(pattern)
Includes(message, pattern) ==
  \E i \in 1..(Len(message) - Len(pattern) + 1) :
    SubSeq(message, i, i + Len(pattern) - 1) = pattern

\* new Error(message): no httpStatus field; status is the HTTP status of the
\* response the error reports, 0 when it reports none
PlainError(message) ==
  [kind |-> "Error", httpStatus |-> 0, status |-> 0, message |-> message]

\* new ExchangeError(message, code, httpStatus)
TypedError(message, httpStatus) ==
  [kind |-> "ExchangeError", httpStatus |-> httpStatus, status |-> httpStatus,
   message |-> message]

\* getEmails on a non-2xx response:
\* new Error(`Graph API error: ${response.status} - ${errorText}`)
MailboxError(status, errorText) ==
  [kind |-> "Error", httpStatus |-> 0, status |-> status,
   message |-> <<"Graph", "API", "error:", ToString(status), "-">> \o errorText]

Errors ==
  {PlainError(m) : m \in {<<"Network", "error", "occurred">>,
                          <<"Request", "timeout">>,
                          <<"Authentication", "failed">>,
                          <<"Rate", "Limit", "exceeded">>}}
  \cup {TypedError(m, s) : m \in {<<"Bad", "request">>, <<"Request", "timeout">>},
                           s \in {400, 429, 500, 502, 503, 504}}
  \cup {MailboxError(s, t) : s \in {401, 429, 503},
                             t \in {<<>>, <<"Service", "Unavailable">>}}

\* the errors the operation under withRetry rejects with
OperationErrors ==
  {PlainError(<<"Network", "error", "occurred">>),
   PlainError(<<"Authentication", "failed">>),
   TypedError(<<"Bad", "request">>, 503),
   TypedError(<<"Bad", "request">>, 400),
   MailboxError(429, <<>>)}

\* isRetryableError(error)
IsRetryableError(error) ==
  IF error.kind = "ExchangeError"
  THEN error.httpStatus \in RetryableStatus
  ELSE \E pattern \in RetryableMessages :
         Includes(LowerCased(error.message), LowerCased(pattern))

\* Math.random(): a value in [0, 1), as a fraction
Randoms == {[num |-> 0, den |-> 1], [num |-> 1, den |-> 2],
            [num |-> 9, den |-> 10]}

\* base delays in milliseconds; with multiples of 100 and the fractions of
\* Randoms every jitter is a whole number
BaseDelays == {100, DefaultBaseDelay, MaxDelay, 40000}

\* the attempt numbers getRetryDelay is called with
Attempts == 1..(MaxAttempts + 3)

\* variant: the delay is not capped
GetRetryDelay_Uncapped(attempt, baseDelay, random) ==
  LET exponentialDelay == baseDelay * 2^(attempt - 1)
      jitter == (random.num * exponentialDelay) \div (random.den * 10)
  IN [attempt |-> attempt, baseDelay |-> baseDelay,
      exponentialDelay |-> exponentialDelay, jitter |-> jitter,
      delay |-> exponentialDelay + jitter]

\* getRetryDelay(attempt, baseDelay) for one value of Math.random()
GetRetryDelay(attempt, baseDelay, random) ==
  LET exponentialDelay == baseDelay * 2^(attempt - 1)
      jitter == (random.num * exponentialDelay) \div (random.den * 10)
  IN [attempt |-> attempt, baseDelay |-> baseDelay,
      exponentialDelay |-> exponentialDelay, jitter |-> jitter,
      delay |-> Min(exponentialDelay + jitter, MaxDelay)]

RetryUnchanged ==
  UNCHANGED <<coreVars, dispatchVars, limiterVars, healthVars, cryptoVars>>

\* withRetry(operation, maxAttempts) is invoked; the loop is not entered
\* for maxAttempts < 1 and the unassigned lastError is thrown
WithRetryStart(maxAttempts) ==
  /\ retry.pc = "idle"
  /\ retry' = IF maxAttempts >= 1
              THEN [IdleRetry EXCEPT !.pc = "attempt",
                                     !.maxAttempts = maxAttempts,
                                     !.attempt = 1]
              ELSE [IdleRetry EXCEPT !.pc = "done",
                                     !.maxAttempts = maxAttempts,
                                     !.result = "threw"]
  /\ classified' = NoClassification
  /\ delayCall' = NoDelayCall
  /\ RetryUnchanged

\* the operation resolves: withRetry returns its result
OperationResolves ==
  /\ retry.pc = "attempt"
  /\ retry' = [retry EXCEPT !.pc = "done", !.invocations = @ + 1,
                            !.outcomes = Append(@, NoError),
                            !.result = "returned"]
  /\ UNCHANGED <<classified, delayCall>>
  /\ RetryUnchanged

\* variant: the attempt limit is not consulted
OperationRejects_IgnoresLimit(error, random) ==
  /\ retry.pc = "attempt"
  /\ retry.invocations <= MaxAttempts
  /\ LET retryable == IsRetryableError(error)
         delay == GetRetryDelay(retry.attempt, DefaultBaseDelay, random)
     IN IF ~retryable
        THEN /\ retry' = [retry EXCEPT !.pc = "done", !.invocations = @ + 1,
                                       !.outcomes = Append(@, error),
                                       !.lastError = error,
                                       !.result = "threw", !.thrown = error]
             /\ classified' = [error |-> error, retryable |-> retryable]
             /\ UNCHANGED delayCall
        ELSE /\ retry' = [retry EXCEPT !.pc = "sleep", !.invocations = @ + 1,
                                       !.outcomes = Append(@, error),
                                       !.lastError = error,
                                       !.delays = Append(@, delay.delay)]
             /\ classified' = [error |-> error, retryable |-> retryable]
             /\ delayCall' = delay
  /\ RetryUnchanged

\* the operation rejects: the error is rethrown on the last attempt and when
\* it is not retryable, otherwise the delay is computed and the timer set
OperationRejects(error, random) ==
  /\ retry.pc = "attempt"
  /\ LET last == retry.attempt = retry.maxAttempts
         retryable == IsRetryableError(error)
         delay == GetRetryDelay(retry.attempt, DefaultBaseDelay, random)
     IN IF last \/ ~retryable
        THEN /\ retry' = [retry EXCEPT !.pc = "done", !.invocations = @ + 1,
                                       !.outcomes = Append(@, error),
                                       !.lastError = error,
                                       !.result = "threw", !.thrown = error]
             /\ classified' = IF last THEN classified
                              ELSE [error |-> error, retryable |-> retryable]
             /\ UNCHANGED delayCall
        ELSE /\ retry' = [retry EXCEPT !.pc = "sleep", !.invocations = @ + 1,
                                       !.outcomes = Append(@, error),
                                       !.lastError = error,
                                       !.delays = Append(@, delay.delay)]
             /\ classified' = [error |-> error, retryable |-> retryable]
             /\ delayCall' = delay
  /\ RetryUnchanged

\* the timer fires: the next attempt begins
RetryWake ==
  /\ retry.pc = "sleep"
  /\ retry' = [retry EXCEPT !.pc = "attempt", !.attempt = @ + 1]
  /\ UNCHANGED <<classified, delayCall>>
  /\ RetryUnchanged

\* the caller has taken the result or the error of withRetry
WithRetryEnd ==
  /\ retry.pc = "done"
  /\ retry' = IdleRetry
  /\ UNCHANGED <<classified, delayCall>>
  /\ RetryUnchanged

\* isRetryableError(error) is called on its own
IsRetryableErrorCall(error) ==
  /\ retry.pc = "idle"
  /\ classified' = [error |-> error, retryable |-> IsRetryableError(error)]
  /\ UNCHANGED <<retry, delayCall>>
  /\ RetryUnchanged

\* getRetryDelay(attempt, baseDelay) is called on its own
GetRetryDelayCall(attempt, baseDelay, random) ==
  /\ retry.pc = "idle"
  /\ delayCall' = GetRetryDelay(attempt, baseDelay, random)
  /\ UNCHANGED <<retry, classified>>
  /\ RetryUnchanged

NextRetry ==
  \/ \E maxAttempts \in 0..MaxAttempts : WithRetryStart(maxAttempts)
  \/ OperationResolves
  \/ \E error \in OperationErrors, random \in Randoms :
       OperationRejects(error, random)
  \/ RetryWake
  \/ WithRetryEnd
  \/ \E error \in Errors : IsRetryableErrorCall(error)
  \/ \E attempt \in Attempts, baseDelay \in BaseDelays, random \in Randoms :
       GetRetryDelayCall(attempt, baseDelay, random)

\* the helpers are called in a process whose stores hold connection A alone
InitHelpers == CoreIdle /\ LibraryInit

SpecRetry == InitHelpers /\ [][NextRetry]_vars

(***************************************************************************)
(* Rate limiter: ExchangeSecurity.checkRateLimit                           *)
(***************************************************************************)
MaxRequests == 2

\* RateLimitConfig: a window of one or two minutes
RateLimitConfigs == [windowMs : {60 * 1000, 2 * 60 * 1000},
                     maxRequests : 0..MaxRequests]

\* variant: a denied call is counted
CheckRateLimit_CountsDenied(entry, config, t) ==
  IF ~entry.present \/ t >= entry.resetTime
  THEN [allowed |-> TRUE,
        entry |-> [present |-> TRUE, count |-> 1,
                   resetTime |-> t + config.windowMs]]
  ELSE IF entry.count >= config.maxRequests
  THEN [allowed |-> FALSE, entry |-> [entry EXCEPT !.count = @ + 1]]
  ELSE [allowed |-> TRUE, entry |-> [entry EXCEPT !.count = @ + 1]]

\* checkRateLimit(key, config) at time t on the entry of the key: the
\* result and the entry afterwards
CheckRateLimit(entry, config, t) ==
  IF ~entry.present \/ t >= entry.resetTime
  THEN [allowed |-> TRUE,
        entry |-> [present |-> TRUE, count |-> 1,
                   resetTime |-> t + config.windowMs]]
  ELSE IF entry.count >= config.maxRequests
  THEN [allowed |-> FALSE, entry |-> entry]
  ELSE [allowed |-> TRUE, entry |-> [entry EXCEPT !.count = @ + 1]]

\* the window of the last allowed call of a key, after a call at time t
WindowAfter(window, config, allowed, t) ==
  IF allowed
  THEN IF ~window.open \/ t >= window.start + config.windowMs
       THEN [open |-> TRUE, start |-> t, allowed |-> 1, denied |-> 0]
       ELSE [window EXCEPT !.allowed = @ + 1]
  ELSE [window EXCEPT !.denied = @ + 1]

LimiterUnchanged ==
  UNCHANGED <<connState, secretSet, uniqueTokenIndex, tokens, issued, logs,
              mappings, tickets, comments, run, ghost, started, faults,
              logFault, tk, mb, sessions, minted, cb, rv, sweep, consumed,
              dispatchVars, retryVars, limitConfig, healthVars, cryptoVars>>

\* checkRateLimit(key, config) is called
CheckRateLimitCall(key) ==
  /\ calls < MaxCalls
  /\ calls' = calls + 1
  /\ LET r == CheckRateLimit(rateLimitStore[key], limitConfig[key], now)
     IN /\ rateLimitStore' = [rateLimitStore EXCEPT ![key] = r.entry]
        /\ limitCall' = [key |-> key, at |-> now, allowed |-> r.allowed,
                         before |-> rateLimitStore[key],
                         deniedBefore |-> windowHistory[key].denied]
        /\ windowHistory' =
             [windowHistory EXCEPT
                ![key] = WindowAfter(@, limitConfig[key], r.allowed, now)]
  /\ UNCHANGED <<now, ticks>>
  /\ LimiterUnchanged

\* cleanupRateLimitStore: the entries whose window is over are deleted
CleanupRateLimitStore ==
  /\ \E k \in Keys : rateLimitStore[k].present /\ now >= rateLimitStore[k].resetTime
  /\ rateLimitStore' =
       [k \in Keys |-> IF rateLimitStore[k].present
                          /\ now >= rateLimitStore[k].resetTime
                       THEN NoEntry ELSE rateLimitStore[k]]
  /\ UNCHANGED <<now, ticks, calls, limitCall, windowHistory>>
  /\ LimiterUnchanged

\* an empty store; the callers of each key pass one config throughout
InitLimit ==
  /\ CoreIdle
  /\ DispatchInit
  /\ RetryInit
  /\ rateLimitStore = [k \in Keys |-> NoEntry]
  /\ limitConfig \in [Keys -> RateLimitConfigs]
  /\ limitCall = NoLimitCall
  /\ windowHistory = [k \in Keys |-> NoWindow]
  /\ HealthInit
  /\ CryptoInit

NextLimit ==
  \/ \E key \in Keys : CheckRateLimitCall(key)
  \/ CleanupRateLimitStore
  \/ Tick

SpecLimit == InitLimit /\ [][NextLimit]_vars

(***************************************************************************)
(* Health monitor: ExchangeHealthMonitor.performHealthCheck                *)
(***************************************************************************)
CheckNames == <<"Database", "Configuration", "Exchange Connections",
                "System Resources", "Security Services", "External Services">>

\* getCheckName(index), index counted from zero
GetCheckName(index) ==
  IF index + 1 \in DOMAIN CheckNames THEN CheckNames[index + 1]
  ELSE "Check " \o ToString(index)

\* what checkDatabase observes: a query throws, the number of FAILED rows
\* of the last hour, and the time the queries took
DatabaseObservations ==
  [fails : BOOLEAN, recentErrors : {0, 11}, duration : {0, 5001}]

CheckDatabase(db) ==
  [name |-> "Database",
   status |-> IF db.fails THEN "unhealthy"
              ELSE IF db.duration > 5000 THEN "degraded"
              ELSE IF db.recentErrors > 10 THEN "degraded"
              ELSE "healthy"]

\* what validateConfiguration() yields: it throws, or a validation result
ConfigurationObservations ==
  [throws : BOOLEAN, isValid : BOOLEAN, warnings : 0..1]

CheckConfiguration(validation) ==
  [name |-> "Configuration",
   status |-> IF validation.throws THEN "unhealthy"
              ELSE IF ~validation.isValid THEN "unhealthy"
              ELSE IF validation.warnings > 0 THEN "degraded"
              ELSE "healthy"]

\* what checkExchangeConnections observes: findMany throws, the number of
\* active connections and how many of them hold an expired latest token
ConnectionObservations ==
  {q \in [fails : BOOLEAN, connections : 0..2, expiredTokens : 0..2] :
     q.expiredTokens <= q.connections}

CheckExchangeConnections(q) ==
  [name |-> "Exchange Connections",
   status |-> IF q.fails THEN "unhealthy"
              ELSE IF q.connections = 0 THEN "healthy"
              ELSE IF 2 * q.expiredTokens > q.connections THEN "unhealthy"
              ELSE IF q.expiredTokens > 0 THEN "degraded"
              ELSE "healthy"]

\* heapUsed / heapTotal, in percent
HeapUsagePercents == {50, 80, 95}

CheckSystemResources(heapUsagePercent) ==
  [name |-> "System Resources",
   status |-> IF heapUsagePercent > 90 THEN "unhealthy"
              ELSE IF heapUsagePercent > 75 THEN "degraded"
              ELSE "healthy"]

\* what checkSecurityServices observes: the test token decrypts to itself,
\* and the test state validates
SecurityObservations == [roundTrip : BOOLEAN, isValid : BOOLEAN]

CheckSecurityServices(sec) ==
  [name |-> "Security Services",
   status |-> IF sec.roundTrip /\ sec.isValid THEN "healthy" ELSE "unhealthy"]

\* what checkExternalServices observes: a fetch throws, response.ok of the
\* Graph endpoint and of the OAuth endpoint
ExternalObservations == [fails : BOOLEAN, graphOk : BOOLEAN, oauthOk : BOOLEAN]

CheckExternalServices(ext) ==
  LET afterGraph == IF ext.graphOk THEN "healthy" ELSE "degraded"
  IN [name |-> "External Services",
      status |-> IF ext.fails THEN "unhealthy"
                 ELSE IF ext.oauthOk THEN afterGraph
                 ELSE IF afterGraph = "healthy" THEN "degraded"
                 ELSE "unhealthy"]

\* the reasons a probe's promise is rejected with
Reasons == {"Error: probe failed"}

\* results.forEach: the check a settled promise contributes
SettledCheck_OneBasedName(result, index) ==
  IF result.status = "fulfilled" THEN result.value
  ELSE [name |-> GetCheckName(index + 1), status |-> "unhealthy"]

SettledCheck(result, index) ==
  IF result.status = "fulfilled" THEN result.value
  ELSE [name |-> GetCheckName(index), status |-> "unhealthy"]

\* checks.filter(c => c.status === status).length
CountStatus(checks, status) ==
  Cardinality({i \in DOMAIN checks : checks[i].status = status})

Summary(checks) ==
  [total |-> Len(checks),
   healthy |-> CountStatus(checks, "healthy"),
   degraded |-> CountStatus(checks, "degraded"),
   unhealthy |-> CountStatus(checks, "unhealthy")]

OverallStatus(summary) ==
  IF summary.unhealthy > 0 THEN "unhealthy"
  ELSE IF summary.degraded > 0 THEN "degraded"
  ELSE "healthy"

HealthUnchanged ==
  UNCHANGED <<coreVars, dispatchVars, retryVars, limiterVars, cryptoVars>>

\* performHealthCheck() is invoked: the start is logged and the six probes
\* are started
PerformHealthCheckStart ==
  /\ hc.pc = "idle"
  /\ hc' = [IdleHealth EXCEPT !.pc = "probing",
                              !.logged = <<"Starting health check">>]
  /\ HealthUnchanged

\* the promise of probe i settles
ProbeSettles(i, result) ==
  /\ hc.pc = "probing"
  /\ hc.results[i] = Pending
  /\ hc' = [hc EXCEPT !.results[i] = result]
  /\ HealthUnchanged

CheckDatabaseSettles ==
  \E db \in DatabaseObservations : ProbeSettles(1, Fulfilled(CheckDatabase(db)))

CheckConfigurationSettles ==
  \E validation \in ConfigurationObservations :
    ProbeSettles(2, Fulfilled(CheckConfiguration(validation)))

CheckExchangeConnectionsSettles ==
  \E q \in ConnectionObservations :
    ProbeSettles(3, Fulfilled(CheckExchangeConnections(q)))

CheckSystemResourcesSettles ==
  \E heapUsagePercent \in HeapUsagePercents :
    ProbeSettles(4, Fulfilled(CheckSystemResources(heapUsagePercent)))

CheckSecurityServicesSettles ==
  \E sec \in SecurityObservations :
    ProbeSettles(5, Fulfilled(CheckSecurityServices(sec)))

CheckExternalServicesSettles ==
  \E ext \in ExternalObservations :
    ProbeSettles(6, Fulfilled(CheckExternalServices(ext)))

\* a failure escapes a probe: its promise is rejected
ProbeRejects ==
  \E i \in Probes, reason \in Reasons : ProbeSettles(i, Rejected(reason))

\* Promise.allSettled resolves: the checks are collected, the summary and
\* the overall status are computed, the completion is logged and the report
\* is returned
PerformHealthCheckEnd ==
  /\ hc.pc = "probing"
  /\ \A i \in Probes : hc.results[i] # Pending
  /\ LET checks == [i \in Probes |-> SettledCheck(hc.results[i], i - 1)]
         summary == Summary(checks)
     IN hc' = [hc EXCEPT !.pc = "idle",
                         !.report = [status |-> OverallStatus(summary),
                                     checks |-> checks,
                                     summary |-> summary],
                         !.outcome = "returned",
                         !.logged = Append(@, "Health check completed")]
  /\ HealthUnchanged

NextHealth ==
  \/ PerformHealthCheckStart
  \/ CheckDatabaseSettles
  \/ CheckConfigurationSettles
  \/ CheckExchangeConnectionsSettles
  \/ CheckSystemResourcesSettles
  \/ CheckSecurityServicesSettles
  \/ CheckExternalServicesSettles
  \/ ProbeRejects
  \/ PerformHealthCheckEnd

SpecHealth == InitHelpers /\ [][NextHealth]_vars

(***************************************************************************)
(* Token cipher: ExchangeSecurity.encryptToken / decryptToken               *)
(* A string is the sequence of its characters, a Buffer the sequence of    *)
(* its bytes.  AES-256-GCM under the fixed key is represented by a         *)
(* position-wise invertible byte substitution selected by the iv, and its  *)
(* authentication tag by a keyed checksum of the iv and the ciphertext.    *)
(***************************************************************************)
MaxTokenLen == 2
\* the characters of the tokens, and their UTF-8 encoding
TokenChars == {"a", "b", ":"}
Utf8Byte(ch) == CASE ch = "a" -> 97 [] ch = "b" -> 98 [] ch = ":" -> 58
Utf8Char(byte) == CHOOSE ch \in TokenChars : Utf8Byte(ch) = byte
Tokens == UNION {[1..n -> TokenChars] : n \in 0..MaxTokenLen}

\* the byte lengths of the iv and of the authentication tag
IvLen == 16
TagLen == 16
\* the values crypto.randomBytes(16) yields
Ivs == {[i \in 1..IvLen |-> 0], [i \in 1..IvLen |-> 171]}
\* the key derived by scryptSync
EncryptionKey == 77

HexDigits == <<"0", "1", "2", "3", "4", "5", "6", "7", "8", "9",
               "a", "b", "c", "d", "e", "f">>
IsHexDigit(ch) == \E d \in DOMAIN HexDigits : HexDigits[d] = ch
HexValue(ch) == (CHOOSE d \in DOMAIN HexDigits : HexDigits[d] = ch) - 1

RECURSIVE ToHex(_)
\* buffer.toString('hex'): two digits per byte
ToHex(bytes) ==
  IF bytes = <<>> THEN <<>>
  ELSE <<HexDigits[(Head(bytes) \div 16) + 1], HexDigits[(Head(bytes) % 16) + 1]>>
         \o ToHex(Tail(bytes))

RECURSIVE FromHex(_)
\* Buffer.from(text, 'hex'): decoding stops at the first pair that is not
\* two hex digits
FromHex(text) ==
  IF Len(text) < 2 THEN <<>>
  ELSE IF IsHexDigit(text[1]) /\ IsHexDigit(text[2])
       THEN <<HexValue(text[1]) * 16 + HexValue(text[2])>>
              \o FromHex(SubSeq(text, 3, Len(text)))
       ELSE <<>>

\* the byte the cipher combines with the plaintext byte at position i
KeyStream(iv, i) == (EncryptionKey + 7 * iv[1] + 13 * i) % 256

\* cipher.update + cipher.final
Encipher(iv, plain) ==
  [i \in DOMAIN plain |-> (plain[i] + KeyStream(iv, i)) % 256]

\* decipher.update + decipher.final, once the tag has been verified
Decipher(iv, cipher) ==
  [i \in DOMAIN cipher |-> (cipher[i] + 256 - KeyStream(iv, i)) % 256]

RECURSIVE WeightedSum(_, _)
WeightedSum(bytes, i) ==
  IF i > Len(bytes) THEN 0 ELSE (i + 1) * bytes[i] + WeightedSum(bytes, i + 1)

\* cipher.getAuthTag()
AuthTag(iv, cipher) ==
  LET sum == EncryptionKey + Len(iv) + WeightedSum(iv, 1) + Len(cipher)
               + WeightedSum(cipher, 1)
  IN [j \in 1..TagLen |-> (sum + 31 * j) % 256]

RECURSIVE Split(_)
\* text.split(':')
Split(text) ==
  IF \A i \in DOMAIN text : text[i] # ":" THEN <<text>>
  ELSE LET at == CHOOSE i \in DOMAIN text :
                   /\ text[i] = ":"
                   /\ \A j \in 1..(i - 1) : text[j] # ":"
       IN <<SubSeq(text, 1, at - 1)>> \o Split(SubSeq(text, at + 1, Len(text)))

\* encryptToken(token), where randomBytes yields iv
EncryptToken(token, iv) ==
  LET plain == [i \in DOMAIN token |-> Utf8Byte(token[i])]
      encrypted == Encipher(iv, plain)
      authTag == AuthTag(iv, encrypted)
  IN ToHex(iv) \o <<":">> \o ToHex(authTag) \o <<":">> \o ToHex(encrypted)

FailedToDecrypt == [result |-> "threw", decrypted |-> <<>>,
                    error |-> "Failed to decrypt token"]

\* decryptToken(encryptedToken): every failure inside the try block is
\* rethrown as Failed to decrypt token
DecryptToken(encryptedToken) ==
  LET parts == Split(encryptedToken)
      part(n) == IF n <= Len(parts) THEN parts[n] ELSE <<>>
      ivHex == part(1)
      authTagHex == part(2)
      encrypted == part(3)
      iv == FromHex(ivHex)
      authTag == FromHex(authTagHex)
      cipher == FromHex(encrypted)
  IN IF ivHex = <<>> \/ authTagHex = <<>> \/ encrypted = <<>>
       THEN FailedToDecrypt
     ELSE IF iv = <<>> \/ Len(authTag) # TagLen THEN FailedToDecrypt
     ELSE IF AuthTag(iv, cipher) # authTag THEN FailedToDecrypt
     ELSE IF \E i \in DOMAIN cipher :
               \A ch \in TokenChars : Utf8Byte(ch) # Decipher(iv, cipher)[i]
       THEN FailedToDecrypt
     ELSE [result |-> "returned",
           decrypted |-> [i \in DOMAIN cipher |-> Utf8Char(Decipher(iv, cipher)[i])],
           error |-> Undefined]

\* the values decryptToken is called with after encryptToken has returned
\* encrypted: that value, that value cut or extended, and values that were
\* never produced by encryptToken
DecryptInputs(encrypted) ==
  LET parts == Split(encrypted)
  IN {encrypted,
      <<"i", "n", "v", "a", "l", "i", "d", "-", "f", "o", "r", "m", "a", "t">>,
      <<>>,
      <<":", ":">>,
      <<"0", "0", ":", "0", "0">>,
      <<"z", "z", ":", "z", "z", ":", "z", "z">>,
      encrypted \o <<":", "0", "0">>,
      encrypted \o <<"0", "0">>,
      IF Len(parts) >= 2 THEN parts[1] \o <<":">> \o parts[2] ELSE <<>>}

CryptoUnchanged ==
  UNCHANGED <<coreVars, dispatchVars, retryVars, limiterVars, healthVars>>

\* encryptToken(token) is called and returns
EncryptTokenCall ==
  /\ \E token \in Tokens, iv \in Ivs :
       crypt' = [IdleCrypt EXCEPT !.op = "encrypt",
                                  !.token = token,
                                  !.encrypted = EncryptToken(token, iv)]
  /\ CryptoUnchanged

\* decryptToken(input) is called and returns or throws
DecryptTokenCall ==
  /\ \E input \in DecryptInputs(crypt.encrypted) :
       LET r == DecryptToken(input)
       IN crypt' = [crypt EXCEPT !.op = "decrypt",
                                 !.input = input,
                                 !.result = r.result,
                                 !.decrypted = r.decrypted,
                                 !.error = r.error]
  /\ CryptoUnchanged

NextCrypto ==
  \/ EncryptTokenCall
  \/ DecryptTokenCall

SpecCrypto == InitHelpers /\ [][NextCrypto]_vars

(***************************************************************************)
(* Recurring ingestion: the scheduler keeps invoking processEmails and the *)
(* process may be stopped in the middle of a message; cleanupOldLogs       *)
(* prunes the processing log between invocations                           *)
(***************************************************************************)
TerminalStatus == {"SUCCESS", "FAILED", "SKIPPED"}

\* the messages of a batch
InBatch(rec) == {rec.batch[i] : i \in DOMAIN rec.batch}

RecurringUnchanged ==
  UNCHANGED <<libraryVars, connState, secretSet, uniqueTokenIndex, tk, mb,
              sessions, minted, cb, rv, sweep, consumed, ticks, now, tokens,
              issued, started>>

\* processEmails(connectionId, limit) is invoked by the scheduler while no
\* other invocation is in progress
ScheduledRun(r, c, lim) ==
  /\ run[r].pc = "idle"
  /\ \A q \in Runs : q < r => run[q].pc # "idle"
  /\ NoOtherRunActive(r)
  /\ run' = [run EXCEPT ![r] = [IdleRun EXCEPT !.pc = "checkConn", !.conn = c,
                                               !.limit = lim]]
  /\ ghost' = [ghost EXCEPT ![r] = NoHistory]
  /\ UNCHANGED <<logs, mappings, tickets, comments, faults, logFault, calls>>
  /\ RecurringUnchanged

\* the process stops inside processEmail, after the PROCESSING record of the
\* current message was written and before its SUCCESS or FAILED record
Interrupt(r) ==
  /\ run[r].pc \in {"findMapping", "createTicket", "addComment", "link",
                    "logSuccess", "logFailed"}
  /\ logs[CurMsg(r)].status = "PROCESSING"
  /\ faults < MaxFaults
  /\ faults' = faults + 1
  /\ run' = [run EXCEPT ![r].pc = "idle", ![r].outcome = "interrupted"]
  /\ UNCHANGED <<ghost, logs, mappings, tickets, comments, logFault, calls>>
  /\ RecurringUnchanged

\* cleanupOldLogs(daysToKeep): deleteMany of the records created before the
\* cutoff whose status is SUCCESS, FAILED or SKIPPED; old is the set of
\* messages whose record was created before the cutoff
CleanupOldLogs ==
  /\ \A r \in Runs : run[r].pc = "idle"
  /\ calls < MaxCalls
  /\ calls' = calls + 1
  /\ \E old \in SUBSET MsgIds :
       logs' = [m \in MsgIds |->
                  IF m \in old /\ logs[m].status \in TerminalStatus
                  THEN NoLog ELSE logs[m]]
  /\ UNCHANGED <<run, ghost, mappings, tickets, comments, faults, logFault>>
  /\ RecurringUnchanged

NextRecurring ==
  \/ \E r \in Runs, c \in Conns, lim \in 1..MaxLimit : ScheduledRun(r, c, lim)
  \/ \E r \in Runs : RunBody(r)
  \/ \E r \in Runs : Interrupt(r)

\* invocation r receives a batch that holds message m
FetchReturns(r, m) ==
  FetchEmails(r) /\ run'[r].pc = "findLog" /\ m \in InBatch(run'[r])

\* ingestion keeps being run on the active connection, every invocation
\* runs to its end unless it is interrupted, and the mailbox keeps returning
\* every message
FairRecurring ==
  /\ \A r \in Runs : WF_vars(RunBody(r))
  /\ SF_vars(\E r \in Runs, lim \in 1..MaxLimit : ScheduledRun(r, "A", lim))
  /\ \A m \in MsgIds : SF_vars(\E r \in Runs : FetchReturns(r, m))

SpecRecurring == InitHelpers /\ [][NextRecurring]_vars /\ FairRecurring

\* invocations of processEmails that do not overlap, with cleanupOldLogs
\* called between them
NextPrune ==
  \/ \E r \in Runs, c \in Conns, lim \in 1..MaxLimit : StartAlone(r, c, lim)
  \/ \E r \in Runs : RunBody(r)
  \/ CleanupOldLogs

SpecPrune == InitHelpers /\ [][NextPrune]_vars

(***************************************************************************)
(* Properties                                                              *)
(***************************************************************************)
Stores == <<logs, mappings, tickets, comments>>

\* run r takes the early return of processEmail in this step
SkipsMessage(r) ==
  /\ run[r].pc = "findLog"
  /\ run'[r] # run[r]
  /\ logs[CurMsg(r)] # NoLog
  /\ logs[CurMsg(r)].connectionId = run[r].conn

\* C1 (as stated): a message that already has a ProcessingRecord for the
\* connection creates no ThreadLink, ticket or comment when it is fetched
\* again, and adds nothing to the processed count nor to the errors count.
C1_ReplayAddsNoCount ==
  [][\A r \in Runs : SkipsMessage(r) =>
        /\ UNCHANGED Stores
        /\ run'[r].errors = run[r].errors
        /\ run'[r].processed = run[r].processed]_vars

\* C1 (amended): a message that already has a ProcessingRecord for the
\* connection creates no ThreadLink, ticket or comment when it is fetched
\* again and leaves the record as it is; it adds nothing to the errors count
\* and exactly one to the processed count.
C1_ReplayChangesNothing ==
  [][\A r \in Runs : SkipsMessage(r) =>
        /\ UNCHANGED Stores
        /\ run'[r].errors = run[r].errors
        /\ run'[r].processed = run[r].processed + 1]_vars

C1_Witness ==
  \E r \in Runs : /\ run[r].pc = "done"
                  /\ ghost[r].skipped # {}
                  /\ run[r].processed >= 1
                  /\ \E m \in ghost[r].skipped : logs[m].connectionId = run[r].conn
                  /\ Len(tickets) >= 1

\* tickets and comments created for message m through connection c
ArtefactsOf(c, m) ==
  Cardinality({i \in 1..Len(tickets) :
                 tickets[i].messageId = m /\ tickets[i].connectionId = c})
  + Cardinality({i \in 1..Len(comments) :
                   comments[i].messageId = m /\ comments[i].connectionId = c})

\* C2: under every interleaving of two processEmails runs for one connection
\* at most one ticket or comment is ever created for a message (no store
\* write of the processing log having failed).
C2_AtMostOneArtefact ==
  ~logFault => \A c \in Conns, m \in MsgIds : ArtefactsOf(c, m) <= 1

\* C3: for runs that do not overlap, all ThreadLinks carrying one
\* conversation identifier reference one and the same ticket.
C3_OneTicketPerConversation ==
  \A x, y \in mappings : x.threadId = y.threadId => x.ticketId = y.ticketId

C3_Witness ==
  \E x, y \in mappings : /\ x.messageId # y.messageId
                         /\ x.threadId = y.threadId
                         /\ ReceivedAt(tickets[x.ticketId].messageId) > 1

\* C4: when a batch holds several unprocessed messages of a conversation
\* that has no ticket yet, the ticket is created from the one with the
\* earliest receipt time.
C4_TicketFromEarliest ==
  [][\A r \in Runs :
       (run[r].pc = "createTicket" /\ Len(tickets') > Len(tickets)) =>
          \A j \in 1..Len(run[r].batch) :
             (/\ ConvOf(run[r].batch[j]) = ConvOf(CurMsg(r))
              /\ logs[run[r].batch[j]] = NoLog)
             => ReceivedAt(CurMsg(r)) <= ReceivedAt(run[r].batch[j])]_vars

Returned(r) == run[r].pc = "done" /\ run[r].outcome = "returned"

BatchSet(r) == {run[r].batch[j] : j \in 1..Len(run[r].batch)}

FailedMsgs(r) == {f.msg : f \in ghost[r].failed}

\* C5: a run whose batch has n messages of which k raise an exception while
\* the ticket, comment or link is created does not throw, attempts every
\* message after a failing one, records each failing message as FAILED with
\* the error text, and returns {processed: n-k, errors: k} (no store write of
\* the processing log having failed).
C5_PartialBatch ==
  \A r \in Runs :
    /\ (run[r].batch # <<>>) => run[r].outcome # "threw"
    /\ (Returned(r) /\ ~logFault) =>
         /\ run[r].errors = Cardinality(ghost[r].failed)
         /\ run[r].processed = Len(run[r].batch) - Cardinality(ghost[r].failed)
         /\ \A m \in BatchSet(r) : logs[m] # NoLog
         /\ \A f \in ghost[r].failed :
              /\ logs[f.msg].status = "FAILED"
              /\ logs[f.msg].errorMessage = f.err

C5_Witness ==
  \E r \in Runs : /\ Returned(r)
                  /\ ~logFault
                  /\ Len(run[r].batch) = 2
                  /\ FailedMsgs(r) = {run[r].batch[1]}
                  /\ run[r].processed = 1
                  /\ logs[run[r].batch[2]].status = "SUCCESS"

LinksOf(m) == {x \in mappings : x.messageId = m}

\* C6: after processEmails returns, every message attempted in the run has
\* one ProcessingRecord in a terminal status (SUCCESS with the ticket, FAILED
\* with the error), and every message that succeeded has exactly one
\* ThreadLink recording its ticket, message id, conversation id and the
\* connection it was ingested through (no store write of the processing log
\* having failed).
C6_TerminalRecordAndLink ==
  \A r \in Runs : (Returned(r) /\ ~logFault) =>
    \A m \in BatchSet(r) \ ghost[r].skipped :
      /\ logs[m].status \in {"SUCCESS", "FAILED"}
      /\ logs[m].status = "FAILED" => logs[m].errorMessage # NoErr
      /\ logs[m].status = "SUCCESS" =>
           /\ logs[m].ticketId # NoTicket
           /\ \E x \in LinksOf(m) :
                /\ LinksOf(m) = {x}
                /\ x.ticketId = logs[m].ticketId
                /\ x.threadId = ConvOf(m)
                /\ x.connectionId = run[r].conn

\* C7: a message is skipped for a connection only if a ProcessingRecord
\* exists for that connection and that message id.
C7_SkipOnlyOwnRecord ==
  [][\A r \in Runs :
       (/\ run[r].pc = "findLog"
        /\ run'[r] # run[r]
        /\ run'[r].pc # "logProcessing")
       => (logs[CurMsg(r)] # NoLog /\ logs[CurMsg(r)].connectionId = run[r].conn)]_vars

\* C8: when the connection is missing or inactive, or the fetch fails,
\* processEmails throws and has created or changed no ticket, comment,
\* ThreadLink or ProcessingRecord; for a connection that is not active the
\* mailbox has not been contacted.
C8_BatchFailureNoEffect ==
  [][\A r \in Runs :
       /\ (run[r].pc = "checkConn" /\ run'[r] # run[r]
             /\ connState[run[r].conn] # "active")
          => (run'[r].outcome = "threw" /\ ~ghost'[r].contacted)
       /\ (run[r].pc \in {"checkConn", "fetch"} /\ run'[r] # run[r])
          => (~ghost'[r].wrote /\ UNCHANGED Stores)
       /\ (run'[r].outcome = "threw")
          => (~ghost'[r].wrote /\ run'[r].processed = 0 /\ run'[r].errors = 0)
       /\ (ghost'[r].contacted \/ ghost'[r].wrote)
          => connState[run'[r].conn] = "active"]_vars

C8_Witness ==
  /\ \E r \in Runs : /\ run[r].outcome = "threw"
                     /\ connState[run[r].conn] = "inactive"
  /\ mappings # {}

\* C9: getAccessToken never returns an access token whose expiry is 5
\* minutes or less after the moment of return.
C9_NoTokenInsideBuffer ==
  (tk.pc = "done" /\ tk.result = "returned") =>
     tk.token.expiresAt - tk.at > ExpiryBuffer

\* C10: getAccessToken returns the latest TokenSet's access token without
\* contacting the provider exactly when that TokenSet's expiry is more than
\* 5 minutes after now, and triggers a refresh in every other case.
C10_RefreshBoundary ==
  (tk.pc \notin {"idle", "lookup"} /\ tk.seen # NoToken) =>
     /\ (tk.seen.expiresAt - tk.seenAt > ExpiryBuffer) =>
          /\ tk.pc = "done" /\ tk.result = "returned"
          /\ tk.token = tk.seen
          /\ tk.refreshCalls = 0 /\ tk.requests = 0
     /\ (tk.seen.expiresAt - tk.seenAt <= ExpiryBuffer) =>
          /\ tk.refreshCalls = 1
          /\ (tk.pc = "done" /\ tk.result = "returned") => tk.token # tk.seen

C10_Witness ==
  /\ tk.pc = "done"
  /\ tk.seen # NoToken
  /\ tk.seen.expiresAt - tk.seenAt = ExpiryBuffer
  /\ tk.refreshCalls = 1
  /\ tk.requests = 1

\* the refresh of the invocation has ended
RefreshEnded == tk.pc \in {"done", "reload"} /\ tk.refreshCalls = 1

\* one of the conditions under which a refresh cannot succeed held
RefreshCannotSucceed ==
  \/ connState[tk.conn] = "missing"
  \/ Len(tk.before) = 0
  \/ LatestToken(tk.before).refreshToken = 0
  \/ ~secretSet
  \/ tk.response = "failed"

\* C11: a refresh that cannot succeed (connection missing, no TokenSet,
\* latest TokenSet without refresh token, client secret not configured,
\* failed request to the token endpoint) returns false without throwing and
\* leaves the TokenSets of the connection as they were; every refresh that
\* returns false does, and getAccessToken then throws.
C11_FailedRefresh ==
  RefreshEnded =>
    /\ RefreshCannotSucceed => tk.refreshed = "false"
    /\ tk.refreshed = "false" =>
         /\ tokens[tk.conn] = tk.before
         /\ tk.pc = "done"
         /\ tk.result = IF tk.direct THEN "false" ELSE "threw"

C11_Witness ==
  /\ RefreshEnded
  /\ ~tk.direct
  /\ tk.response = "failed"
  /\ tk.refreshed = "false"
  /\ tk.result = "threw"
  /\ Len(tokens[tk.conn]) = 1

\* C12: the store step of a refresh that the provider answered with new
\* tokens appends exactly one TokenSet to the connection, leaves the earlier TokenSets and the other
\* connections' TokenSets as they were, and the new TokenSet carries the
\* provider's new refresh token if one was returned and the previous
\* TokenSet's refresh token otherwise.
C12_AppendOnly ==
  [][(tk.pc = "store" /\ tk'.pc # "store") =>
       /\ Len(tokens'[tk.conn]) = Len(tokens[tk.conn]) + 1
       /\ SubSeq(tokens'[tk.conn], 1, Len(tokens[tk.conn])) = tokens[tk.conn]
       /\ LatestToken(tokens'[tk.conn]).refreshToken =
            IF tk.newRefresh THEN LatestToken(tokens'[tk.conn]).accessToken
            ELSE tk.cur.refreshToken
       /\ \A c \in Conns \ {tk.conn} : tokens'[c] = tokens[c]]_vars

\* C13: a mailbox client call attempts at most one refresh, and only when
\* the latest TokenSet it read was within the expiry buffer; a call whose
\* refresh worked has sent exactly two provider requests when it ends: the
\* refresh and one API request carrying the new TokenSet's access token.
C13_OneRefreshPerCall ==
  mb.pc # "idle" =>
    /\ tk.refreshCalls <= 1
    /\ tk.requests <= tk.refreshCalls
    /\ tk.refreshCalls = 1 =>
         /\ tk.seen # NoToken
         /\ tk.seen.expiresAt - tk.seenAt <= ExpiryBuffer
    /\ tk.refreshCalls = 0 => mb.apiRequests <= 1
    /\ tk.refreshed = "false" => mb.apiRequests = 0
    /\ (mb.pc = "done" /\ tk.refreshed = "true") =>
         /\ tk.requests = 1
         /\ mb.apiRequests = 1
         /\ tk.token = LatestToken(tokens[tk.conn])
         /\ tk.token # tk.seen

C13_Witness ==
  /\ mb.pc = "done"
  /\ mb.method = "getEmails"
  /\ tk.seen.expiresAt < tk.seenAt
  /\ tk.refreshed = "true"
  /\ tk.requests + mb.apiRequests = 2

\* C14: whenever revokeTokens returns true no TokenSet remains for the
\* connection, also after a network error of the remote revocation; and it
\* returns true when the connection does not exist or has no TokenSet.
C14_RevocationTotal ==
  [][(rv.pc # "done" /\ rv'.pc = "done") =>
       /\ rv'.result = "true" => Len(tokens'[rv'.conn]) = 0
       /\ (rv.pc = "lookup" /\ (\/ connState[rv.conn] = "missing"
                                \/ Len(tokens[rv.conn]) = 0)) =>
            rv'.result = "true"]_vars

C14_Witness ==
  /\ rv.pc = "done"
  /\ rv.remote = "network error"
  /\ rv.result = "true"
  /\ Len(tokens[rv.conn]) = 0

C16_UnknownState ==
  [][\A h \in Callers :
       (/\ cb[h].pc = "findSession"
        /\ cb'[h].pc # "findSession"
        /\ \A x \in sessions : x.state # cb[h].state) =>
          /\ cb'[h].pc = "done"
          /\ cb'[h].result = "Invalid or expired OAuth session"
          /\ ~cb'[h].exchanged
          /\ ~cb'[h].created
          /\ sessions' = sessions
          /\ tokens' = tokens]_vars

C16_Witness ==
  \E h \in Callers :
    /\ cb[h].pc = "done"
    /\ cb[h].state = 0
    /\ sessions # {}
    /\ cb[h].result = "Invalid or expired OAuth session"

\* C17: every stored session expires 10 minutes after its creation; a
\* handleCallback that finds its session more than 10 minutes after the
\* creation deletes the session and fails with the expired-session error,
\* without contacting the token endpoint and without creating a TokenSet; a
\* handleCallback that finds it earlier is not refused as expired.
C17_ExpiredSession ==
  /\ \A x \in sessions : x.expiresAt = x.createdAt + SessionLifetime
  /\ \A h \in Callers :
       cb[h].session # NoSession =>
         LET age == now - cb[h].session.createdAt
         IN /\ age > SessionLifetime =>
                 /\ cb[h].pc \in {"deleteExpired", "done"}
                 /\ ~cb[h].exchanged
                 /\ ~cb[h].created
                 /\ cb[h].pc = "done" =>
                      /\ cb[h].result = "OAuth session has expired"
                      /\ cb[h].session \notin sessions
            /\ age <= SessionLifetime =>
                 /\ cb[h].pc # "deleteExpired"
                 /\ cb[h].result # "OAuth session has expired"

C17_Witness ==
  \E h \in Callers :
    /\ cb[h].pc = "done"
    /\ cb[h].result = "OAuth session has expired"
    /\ now > cb[h].session.expiresAt
    /\ cb[h].session \notin sessions

\* a step of cleanupExpiredSessions: the only call that starts neither a
\* handleCallback nor a revokeTokens invocation and generates no session
SweepStep == calls' = calls + 1 /\ cb' = cb /\ rv' = rv /\ minted' = minted

\* C18: cleanupExpiredSessions returns without throwing, also when the store
\* operation fails; a sweep whose store operation succeeds removes exactly
\* the sessions whose expiry is before now, which are the sessions
\* handleCallback would refuse as expired at that instant; a sweep changes
\* nothing but the sessions.
C18_SweepFrame ==
  [][SweepStep =>
       /\ sweep'.outcome = "returned"
       /\ sweep'.storeFailed => sessions' = sessions
       /\ ~sweep'.storeFailed =>
            /\ sessions' \subseteq sessions
            /\ \A x \in sessions :
                 /\ x \notin sessions' <=> x.expiresAt < now
                 /\ x \notin sessions' <=> SessionExpired(x, now)
       /\ UNCHANGED <<tokens, issued, connState, secretSet, now, minted,
                      consumed, tk, mb, Stores>>]_vars

C18_Witness ==
  /\ sweep.outcome = "returned"
  /\ ~sweep.storeFailed
  /\ calls = 2
  /\ minted = 2
  /\ Cardinality(sessions) = 1
  /\ \A x \in sessions : x.state = 2

\* C19: connections are isolated: every comment added by an ingestion run
\* is on a ticket that was created through the connection of that run.
C19_ConnectionIsolation ==
  \A i \in 1..Len(comments) :
    tickets[comments[i].ticketId].connectionId = comments[i].connectionId

\* C20: when the runs of ingestion do not overlap, no two tickets are
\* created from messages of one conversation.
C20_OneTicketWhenSerialized ==
  \A i, j \in 1..Len(tickets) :
    ConvOf(tickets[i].messageId) = ConvOf(tickets[j].messageId) => i = j

\* the number of items of a header list that carry the name
HeaderCount(wire, name) ==
  Cardinality({i \in DOMAIN wire : wire[i].name = name})

\* the header list carries the name exactly once, with the value
HasHeader(wire, name, value) ==
  /\ HeaderCount(wire, name) = 1
  /\ \E i \in DOMAIN wire : wire[i].name = name /\ wire[i].value = value

\* C21: for every ticket context the message of sendTicketEmail carries the
\* ticket id, the ticket number, the system name and the auto-response
\* suppression always, one message type (reply when isReply is true,
\* notification otherwise), the thread id and the original message id
\* exactly when they are known, and In-Reply-To and References equal to the
\* original message id exactly when it is known; both providers hand these
\* headers to their transport.
C21_TrackingHeaders ==
  st.op = "sendTicketEmail" =>
    LET c == st.context
        m == st.message
        h == st.message.headers
        threadKnown == Truthy(c.threadId)
        originalKnown == Truthy(c.originalMessageId)
        type == IF c.isReply = "true" THEN "reply" ELSE "notification"
    IN /\ {"X-Peppermint-Ticket-ID", "X-Peppermint-Ticket-Number",
            "X-Peppermint-System", "X-Auto-Response-Suppress",
            "X-Peppermint-Message-Type"} \subseteq DOMAIN h
       /\ h["X-Peppermint-Ticket-ID"] = c.ticketId
       /\ h["X-Peppermint-Ticket-Number"] = c.ticketNumber
       /\ h["X-Peppermint-System"] = "peppermint-helpdesk"
       /\ h["X-Auto-Response-Suppress"] = "OOF, DR, RN, NRN, AutoReply"
       /\ h["X-Peppermint-Message-Type"] = type
       /\ "X-Peppermint-Thread-ID" \in DOMAIN h <=> threadKnown
       /\ threadKnown => h["X-Peppermint-Thread-ID"] = c.threadId
       /\ "X-Peppermint-Original-Message-ID" \in DOMAIN h <=> originalKnown
       /\ originalKnown =>
            h["X-Peppermint-Original-Message-ID"] = c.originalMessageId
       /\ Truthy(m.inReplyTo) <=> originalKnown
       /\ Truthy(m.references) <=> originalKnown
       /\ originalKnown => /\ m.inReplyTo = c.originalMessageId
                           /\ m.references = c.originalMessageId
       /\ \A i \in DOMAIN st.sent :
            LET r == st.sent[i].request
            IN IF st.sent[i].provider = "SMTP"
               THEN /\ r.headers = h
                    /\ r.inReplyTo = (IF originalKnown THEN c.originalMessageId
                                      ELSE Undefined)
                    /\ r.references = r.inReplyTo
               ELSE /\ \A n \in DOMAIN h : HasHeader(r, n, h[n])
                    /\ HeaderCount(r, "X-Peppermint-Message-Type") = 1
                    /\ Len(r) = Cardinality(DOMAIN h)
                                 + (IF originalKnown THEN 2 ELSE 0)
                    /\ originalKnown =>
                         /\ HasHeader(r, "In-Reply-To", c.originalMessageId)
                         /\ HasHeader(r, "References", c.originalMessageId)

\* a notification with a known original message and an empty thread id has
\* gone out to two recipients through the Exchange provider
C21_Witness ==
  /\ st.op = "sendTicketEmail"
  /\ st.pc = "done"
  /\ st.success
  /\ st.context.isReply = Undefined
  /\ st.context.originalMessageId = "<m1>"
  /\ st.context.threadId = ""
  /\ Len(st.sent) = 2
  /\ st.sent[2].provider = "Exchange"

\* C22: once a provider is resolved sendTicketEmail does not throw: it throws
\* only out of a failed initialization, before anything was handed to a
\* transport; a recipient whose token could not be obtained or whose request
\* failed, and a rejected SMTP send, end in a result with success = false
\* and an error text; the outbound log entry is emitted only for a result
\* with success = true.
C22_DeliveryFailureIsAResult ==
  st.op = "sendTicketEmail" =>
    /\ st.result = "threw" =>
         /\ es.provider = NoProvider
         /\ st.inits = 1
         /\ st.sent = <<>>
         /\ st.failed = <<>>
         /\ ~st.logged
    /\ st.result = "returned" =>
         /\ es.provider # NoProvider
         /\ st.success <=> st.failed = <<>>
         /\ ~st.success => Truthy(st.error)
         /\ \A i \in DOMAIN st.failed :
              st.failed[i].cause \in {"token", "response", "transport"}
    /\ st.logged => st.success /\ st.result = "returned"

\* the Exchange provider could not obtain a token for a recipient and the
\* send has returned its result
C22_Witness ==
  /\ st.op = "sendTicketEmail"
  /\ st.pc = "done"
  /\ st.result = "returned"
  /\ es.provider.name = "Exchange"
  /\ ~st.success
  /\ st.error = "Failed to send to"
  /\ \E i \in DOMAIN st.failed : st.failed[i].cause = "token"
  /\ Len(outbound) = 0

\* the service initializes itself from loadConfiguration in this step
SelfInitStep == st.pc = "init" /\ st'.pc # "init" /\ st.config = NoConfig

\* C23: with EMAIL_PROVIDER = exchange and no active connection the
\* initialization throws and leaves the provider as it was, so a send that
\* found no provider ends with none and nothing is handed to a transport;
\* no initialization from an exchange environment installs the SMTP
\* provider; and every send that finds no provider initializes first.
C23_NoSilentFallback ==
  [][/\ (SelfInitStep /\ emailProviderEnv = "exchange"
                      /\ LatestActiveConnection = NoConn) =>
          /\ st'.result = "threw"
          /\ st'.error = "No active Exchange connection found"
          /\ es' = es
          /\ st.op = "sendTicketEmail" => es'.provider = NoProvider
          /\ st'.sent = <<>>
          /\ outbound' = outbound
     /\ (SelfInitStep /\ emailProviderEnv = "exchange") =>
          (es'.provider.name = "SMTP" => es.provider.name = "SMTP")
     /\ (st.pc = "idle" /\ st'.op = "sendTicketEmail"
                        /\ es.provider = NoProvider) =>
          st'.pc = "init"]_vars

\* the second operation on the service is a send that has tried to
\* initialize again and failed for want of an active connection
C23_Witness ==
  /\ emailProviderEnv = "exchange"
  /\ calls = 2
  /\ st.op = "sendTicketEmail"
  /\ st.pc = "done"
  /\ st.result = "threw"
  /\ st.error = "No active Exchange connection found"
  /\ st.inits = 1
  /\ es.provider = NoProvider
  /\ outbound = <<>>

\* C24: withRetry invokes the operation at most maxAttempts times; every
\* invocation but the last one failed with an error classified retryable;
\* it returns on the first invocation that resolves, rethrows at once an
\* error that is not retryable, and rethrows the last error when the
\* maxAttempts-th invocation fails.
C24_RetryBounded ==
  retry.pc # "idle" =>
    LET n == retry.invocations
        o == retry.outcomes
    IN /\ n = Len(o)
       /\ n <= retry.maxAttempts
       /\ \A i \in 1..(n - 1) : o[i] # NoError /\ IsRetryableError(o[i])
       /\ retry.pc = "sleep" =>
            /\ n < retry.maxAttempts
            /\ o[n] # NoError
            /\ IsRetryableError(o[n])
            /\ Len(retry.delays) = n
       /\ retry.pc = "attempt" => retry.attempt = n + 1 /\ Len(retry.delays) = n
       /\ retry.result = "returned" => n >= 1 /\ o[n] = NoError
       /\ (retry.result = "threw" /\ retry.maxAttempts >= 1) =>
            /\ n >= 1
            /\ o[n] # NoError
            /\ retry.thrown = o[n]
            /\ ~IsRetryableError(o[n]) \/ n = retry.maxAttempts
       /\ (n >= 1 /\ o[n] # NoError /\ ~IsRetryableError(o[n])) =>
            retry.pc = "done" /\ retry.result = "threw"

\* three attempts were allowed, all three failed with a retryable error and
\* the last error was rethrown
C24_Witness ==
  /\ retry.pc = "done"
  /\ retry.result = "threw"
  /\ retry.maxAttempts = 3
  /\ retry.invocations = 3
  /\ IsRetryableError(retry.thrown)
  /\ Len(retry.delays) = 2

\* the classification the specification gives: by the HTTP status of the
\* error, or by a transient pattern in its text
ClaimedRetryable(error) ==
  \/ error.status \in RetryableStatus
  \/ \E pattern \in RetryableMessages :
       Includes(LowerCased(error.message), pattern)

\* C25: isRetryableError returns true exactly for the errors whose HTTP
\* status is 429, 502, 503 or 504 or whose message contains a transient
\* pattern, for typed errors, plain errors and the errors of the mailbox
\* client alike.
C25_RetryableExactly ==
  classified.retryable <=> ClaimedRetryable(classified.error)

\* C26: getRetryDelay(a, b) is min(b * 2^(a-1) + j, 30000) with a jitter j
\* between 0 and a tenth of b * 2^(a-1); it never exceeds 30000, is at least
\* b * 2^(a-1) when that is at most 30000, the delay of the next attempt is
\* not below its jitter-free part, and the delays of one withRetry call
\* never decrease.
C26_BackoffBounds ==
  /\ delayCall # NoDelayCall =>
       LET e == delayCall.baseDelay * 2^(delayCall.attempt - 1)
       IN /\ delayCall.delay = Min(e + delayCall.jitter, 30000)
          /\ 0 <= delayCall.jitter
          /\ 10 * delayCall.jitter <= e
          /\ delayCall.delay <= 30000
          /\ e <= 30000 => delayCall.delay >= e
          /\ \A random \in Randoms :
               GetRetryDelay(delayCall.attempt + 1, delayCall.baseDelay,
                             random).delay >= Min(e, 30000)
  /\ \A i \in 1..(Len(retry.delays) - 1) : retry.delays[i] <= retry.delays[i + 1]

\* the sixth attempt with the default base delay: 32000 ms and its jitter
\* are cut to the cap
C26_Witness ==
  /\ delayCall.attempt = 6
  /\ delayCall.baseDelay = 1000
  /\ delayCall.exponentialDelay = 32000
  /\ delayCall.jitter > 0
  /\ delayCall.delay = 30000

\* C27: for every key and every config with maxRequests >= 0, at most
\* maxRequests calls are allowed within one window of windowMs that starts
\* at the first allowed call.
C27_AtMostMaxRequests ==
  \A k \in Keys : windowHistory[k].allowed <= limitConfig[k].maxRequests

\* a step of checkRateLimit
LimitCallStep == calls' = calls + 1 /\ limitCall'.key \in Keys

\* C28: a call at or after the reset time of its key is allowed and opens a
\* new window with count one, whatever the count of the old window and
\* however many calls were denied in it; a denied call leaves the store as
\* it was.
C28_WindowReset ==
  [][LimitCallStep =>
       LET k == limitCall'.key
           e == rateLimitStore[k]
       IN /\ (e.present /\ now >= e.resetTime) =>
               /\ limitCall'.allowed
               /\ rateLimitStore'[k] =
                    [present |-> TRUE, count |-> 1,
                     resetTime |-> now + limitConfig[k].windowMs]
          /\ ~limitCall'.allowed => rateLimitStore' = rateLimitStore]_vars

\* a call was allowed after the window of its key had run out with a call
\* denied in it
C28_Witness ==
  /\ limitCall.allowed
  /\ limitCall.before.present
  /\ limitCall.at >= limitCall.before.resetTime
  /\ limitCall.deniedBefore > 0
  /\ rateLimitStore[limitCall.key].count = 1
  /\ rateLimitStore[limitCall.key].resetTime
       = limitCall.at + limitConfig[limitCall.key].windowMs

\* C29: performHealthCheck returns a report and never throws; a probe whose
\* promise was rejected appears in the report as an unhealthy check under
\* the name of that probe, the report holds exactly six checks, the three
\* counts of the summary add up to its total, and the overall status is
\* unhealthy if some check is unhealthy, else degraded if some check is
\* degraded, else healthy.
C29_HealthReport ==
  /\ hc.outcome \in {"none", "returned"}
  /\ (hc.pc = "idle" /\ hc.logged # <<>>) => hc.outcome = "returned"
  /\ hc.outcome = "returned" =>
       LET report == hc.report
           checks == report.checks
           some(status) == \E i \in DOMAIN checks : checks[i].status = status
       IN /\ Len(checks) = 6
          /\ \A i \in Probes :
               hc.results[i].status = "rejected" =>
                 checks[i] = [name |-> CheckNames[i], status |-> "unhealthy"]
          /\ \A i \in Probes :
               hc.results[i].status = "fulfilled" =>
                 checks[i] = hc.results[i].value
          /\ report.summary.total = 6
          /\ report.summary.healthy + report.summary.degraded
               + report.summary.unhealthy = report.summary.total
          /\ report.status = IF some("unhealthy") THEN "unhealthy"
                             ELSE IF some("degraded") THEN "degraded"
                             ELSE "healthy"

\* a report of a run in which the External Services probe was rejected and
\* every other probe was fulfilled without an unhealthy check
C29_Witness ==
  /\ hc.outcome = "returned"
  /\ hc.results[6].status = "rejected"
  /\ \A i \in 1..5 : /\ hc.results[i].status = "fulfilled"
                     /\ hc.results[i].value.status # "unhealthy"
  /\ hc.results[1].value.status = "degraded"
  /\ hc.report.status = "unhealthy"
  /\ hc.report.summary = [total |-> 6, healthy |-> 4, degraded |-> 1,
                          unhealthy |-> 1]

\* the text has exactly the three parts iv:authTag:ciphertext
ThreePartForm(text) == Len(Split(text)) = 3

\* C30: decryptToken returns the token that encryptToken was given, for
\* every token, the empty one included; and decryptToken of a text that
\* does not consist of three parts separated by colons throws
\* Failed to decrypt token.
C30_TokenRoundTrip ==
  crypt.op = "decrypt" =>
    /\ (crypt.encrypted # <<>> /\ crypt.input = crypt.encrypted) =>
         /\ crypt.result = "returned"
         /\ crypt.decrypted = crypt.token
    /\ ~ThreePartForm(crypt.input) =>
         /\ crypt.result = "threw"
         /\ crypt.error = "Failed to decrypt token"

\* the step in which invocation r receives the messages of the mailbox
FetchStep(r) == run[r].pc = "fetch" /\ run'[r].pc # "fetch"

\* C31: when an invocation of processEmails returns, processed + errors is
\* the number of messages it fetched, and the number of messages it fetched
\* is at most the limit it was called with.
C31_CountsAddUp ==
  [][\A r \in Runs :
       /\ FetchStep(r) => Len(run'[r].batch) <= run[r].limit
       /\ run'[r].outcome = "returned" =>
            run'[r].processed + run'[r].errors = Len(run'[r].batch)]_vars

\* an invocation that fetched two messages returns with one processed and
\* one failed
C31_Witness ==
  \E r \in Runs : /\ run[r].outcome = "returned"
                  /\ Len(run[r].batch) = 2
                  /\ run[r].processed = 1
                  /\ run[r].errors = 1

\* the invocation that was writing message m has been interrupted and the
\* record of m is still PROCESSING
LeftInProgress(m) ==
  \E r \in Runs : /\ run[r].pc = "idle"
                  /\ run[r].outcome = "interrupted"
                  /\ CurMsg(r) = m
                  /\ logs[m].status = "PROCESSING"

\* C32: a message whose invocation was interrupted between its PROCESSING
\* record and its terminal record is processed by a later invocation: while
\* ingestion keeps being run and the mailbox keeps returning the message,
\* its record eventually is SUCCESS or FAILED.
C32_NoMessageStaysInProgress ==
  \A m \in MsgIds :
    LeftInProgress(m) ~> (logs[m].status \in {"SUCCESS", "FAILED"})

\* the tickets and comments that message m gave rise to
ArtifactsOf(m) ==
  Cardinality({i \in DOMAIN tickets : tickets[i].messageId = m})
    + Cardinality({i \in DOMAIN comments : comments[i].messageId = m})

\* C33: over any sequence of processEmails invocations and cleanupOldLogs
\* calls, a message gives rise to at most one ticket or one comment in
\* total, also after its terminal record was pruned and the message was
\* ingested again.
C33_OneArtifactPerMessage ==
  ~logFault => \A m \in MsgIds : ArtifactsOf(m) <= 1

\* ticket i has a ThreadLink for the message it was created from
Linked(i) ==
  \E x \in mappings : x.ticketId = i /\ x.messageId = tickets[i].messageId

\* C34: whenever no invocation of processEmails is in progress, every ticket
\* created by createTicketFromEmail has a ThreadLink for the message it was
\* created from, also when linking or recording failed for that message;
\* hence a message recorded as FAILED has left no ticket behind.
C34_EveryTicketLinked ==
  (\A r \in Runs : run[r].pc \in {"idle", "done"}) =>
    /\ \A i \in DOMAIN tickets : Linked(i)
    /\ \A i \in DOMAIN tickets : logs[tickets[i].messageId].status # "FAILED"

\* C35: the token row a handleCallback invocation has stored belongs to the
\* connection for which generateAuthUrl created the session of its state,
\* also when the user of the session has two active connections.
C35_TokenForSessionConnection ==
  \A h \in Callers : cb[h].created => cb[h].conn = cb[h].session.conn

\* C36: of two overlapping handleCallback invocations that carry the same
\* state, at most one posts the authorization code to the token endpoint
\* and at most one stores a token row.
C36_ExchangedOnce ==
  \A h, g \in Callers :
    (h # g /\ cb[h].state = cb[g].state /\ cb[h].pc # "idle" /\ cb[g].pc # "idle") =>
      /\ ~(cb[h].exchanged /\ cb[g].exchanged)
      /\ ~(cb[h].created /\ cb[g].created)

\* invocation h of handleCallback throws in this step
CallbackThrows(h) ==
  cb[h].pc # "done" /\ cb'[h].pc = "done" /\ cb'[h].result # "ok"

\* invocation h has deleted the session of its state
ConsumedOwnSession(h) == cb[h].pc = "reload"

\* C37: a handleCallback invocation that throws has stored no token row;
\* and unless it throws because the session has expired, it has not deleted
\* the session of its state.
C37_FailedCallbackStoresNothing ==
  [][\A h \in Callers :
       CallbackThrows(h) =>
         /\ ~cb'[h].created
         /\ cb'[h].result # "OAuth session has expired" => ~ConsumedOwnSession(h)]_vars


\* a call that refreshed (refreshAccessToken, or a getAccessToken that found
\* the stored token expired) has completed for connection c
RefreshCompleted(c) ==
  tk.pc = "done" /\ tk.conn = c /\ tk.refreshCalls >= 1

\* C38: once revokeTokens has returned true for a connection and a token
\* refresh for the same connection has completed as well, no TokenSet is
\* stored for that connection
C38_RevocationWins ==
  \A c \in Conns :
    (rv.pc = "done" /\ rv.conn = c /\ rv.result = "true" /\ RefreshCompleted(c))
      => tokens[c] = <<>>


\* C39: for every maxAttempts, 0 included, a completed withRetry has invoked
\* the operation at least once, and what it throws is the error of its last
\* invocation
C39_InvokedAtLeastOnce ==
  retry.pc = "done" =>
    /\ retry.invocations >= 1
    /\ retry.result = "threw" =>
         /\ retry.outcomes # <<>>
         /\ retry.thrown # NoError
         /\ retry.thrown = retry.outcomes[Len(retry.outcomes)]


\* ExchangeEmailProvider.sendEmail has returned its result for a message
\* with more than one recipient
ExchangeSendReturned ==
  /\ st.op = "sendTicketEmail"
  /\ st.pc \in {"log", "done"}
  /\ st.result # "threw"
  /\ es.provider.name = "Exchange"
  /\ Len(st.to) > 1

\* the text contains the address of the recipient
NamesRecipient(text, recipient) == \E i \in DOMAIN text : text[i] = recipient

\* C40: for a message with several recipients the Exchange provider calls
\* graphService.sendEmail once per recipient, in order, also after a failed
\* send; its result has success = true exactly when no send failed, and
\* otherwise the error text names every recipient whose send failed (and
\* no other recipient)
C40_OneSendPerRecipient ==
  ExchangeSendReturned =>
    /\ st.attempted = st.to
    /\ st.success <=> st.failed = <<>>
    /\ st.success => st.errorText = <<>>
    /\ \A i \in DOMAIN st.to :
         NamesRecipient(st.errorText, st.to[i])
           <=> \E j \in DOMAIN st.failed : st.failed[j].to = <<st.to[i]>>

\* the send to the first of two recipients failed, the send to the second
\* one went out, and the result names the first recipient alone
C40_Witness ==
  /\ ExchangeSendReturned
  /\ st.to = <<"a", "b">>
  /\ st.attempted = <<"a", "b">>
  /\ Len(st.failed) = 1
  /\ st.failed[1].to = <<"a">>
  /\ ~st.success
  /\ st.errorText = <<"Failed to send to ", "a">>

=============================================================================
